---- MODULE Spec2Model ----
(***************************************************************************)
(* A byte-level model of the KMALL reader/writer class kmall (kmall.py).   *)
(*                                                                         *)
(* A file is a sequence of bytes (0..255).  The instance state is the open *)
(* file handle's cursor (FID.tell()) and the attributes the scanner keeps  *)
(* (file_size, eof, datagram_ident, read_method, datagram_data).  Every    *)
(* decoder is an operator over (file, cursor) that moves the cursor as the *)
(* Python code does: a fixed struct.unpack needs all its bytes (else       *)
(* struct.error, the cursor left after the short read), FID.seek(d, 1) is  *)
(* relative and may be negative, FID.seek(p, 0) is absolute.  Integer      *)
(* fields are decoded little-endian from the bytes.  Float fields are kept *)
(* as their raw bytes: pack/unpack of a float32/float64 is a bijection     *)
(* the code never computes on in the operations modelled here.             *)
(***************************************************************************)
EXTENDS Integers, Sequences, FiniteSets, TLC

VARIABLES
    file,            \* the bytes of the file FID is open on
    pos,             \* FID.tell()
    file_size,       \* self.file_size (NoSize = None)
    eof,             \* self.eof
    datagram_ident,  \* self.datagram_ident: the 3 tag bytes, <<>> = None
    read_method,     \* self.read_method: a method name, "None" = None
    datagram_data,   \* self.datagram_data: a record, NoData = None
    err,             \* the exception the last call raised, "" = it returned
    op,              \* the last call made on the instance
    P0,              \* the cursor when the last call was made
    FID,             \* self.FID: "None" or "open"
    out,             \* the bytes written to the output file by the writer
    arg,             \* the argument of a codec call made outside a file read
    result           \* what the last such call returned

vars == <<file, pos, file_size, eof, datagram_ident, read_method,
          datagram_data, err, op, P0, FID, out, arg, result>>

\* ------------------------------------------------------------------------
\* Bounds of the model
\* ------------------------------------------------------------------------

\* unknown trailing bytes a declared size may cover beyond the known fields
MaxExtra == 2

\* repeat counts (sectors, classes, soundings, samples, beams) range 0..MaxCount
MaxCount == 2

\* ------------------------------------------------------------------------
\* Struct sizes: struct.Struct(format_to_unpack).size of each format
\* ------------------------------------------------------------------------

LenFieldSize == 4
HeaderSize == 20
IIPfixedSize == 7
IOPfixedSize == 6
IBfixedSize == 7
MpartitionSize == 4
MbodySize == 12
PingInfoSizeA == 124
PingInfoSizeB == 20
TxSectorInfoSize == 36
RxInfoSize == 32
ExtraDetClassInfoSize == 4
SoundingSize == 120
MWCtxInfoSize == 12
MWCtxSectorDataSize == 16
MWCrxInfoSize == 16
MWCrxBeamDataSize == 12
ScommonSize == 8
SPOblockSizeA == 12
SPOblockSizeB == 278
SKMinfoSize == 12
KMbinaryTypeSize == 4
KMbinaryInfoSize == 16
KMbinaryPosSize == 16
KMbinaryDataSize == 84
KMdelayedHeaveSize == 12
SVPfixedSizeA == 12
SVPfixedSizeB == 16
SVPpointSize == 20
SVTinfoSize == 20
SVTsampleSize == 24
SCLdataSize == 72
SDEdataSize == 64
SHIdataSize == 40
CHEdataSize == 4

\* self.file_size = None
NoSize == -1

\* self.datagram_data = None
NoData == [kind |-> "None"]

\* ------------------------------------------------------------------------
\* Primitive field codec (struct.pack / struct.unpack, little-endian)
\* ------------------------------------------------------------------------

Min(a, b) == IF a <= b THEN a ELSE b

\* struct.pack("B", v)
U8le(v) == << v % 256 >>

\* struct.pack("H", v)
U16le(v) == << v % 256, (v \div 256) % 256 >>

\* struct.pack("I", v)
U32le(v) == << v % 256, (v \div 256) % 256, (v \div 65536) % 256,
               (v \div 16777216) % 256 >>

\* struct.unpack("B", ...) of the byte at 0-based offset o
u8(f, o) == f[o + 1]

\* struct.unpack("H", ...) of the two bytes at 0-based offset o
u16(f, o) == f[o + 1] + 256 * f[o + 2]

\* struct.unpack("I", ...) of the four bytes at 0-based offset o
u32(f, o) == f[o + 1] + 256 * f[o + 2] + 65536 * f[o + 3] + 16777216 * f[o + 4]

\* n zero bytes
Zeros(n) == [i \in 1..n |-> 0]

\* the bytes FID.read(n) returns with the cursor at p: short at the end of
\* the file, empty beyond it
ReadBytes(f, p, n) ==
    IF p >= Len(f) \/ n <= 0 THEN << >>
    ELSE SubSeq(f, p + 1, Min(p + n, Len(f)))

\* A reader state: the cursor and the exception raised so far ("" = none)
Rd(p) == [pos |-> p, err |-> ""]

\* struct.unpack(fmt, FID.read(n)): all n bytes or struct.error; the cursor
\* has moved over whatever the short read returned
Fixed(f, r, n) ==
    LET got == Len(ReadBytes(f, r.pos, n))
    IN  IF r.err # "" THEN r
        ELSE IF got = n THEN [r EXCEPT !.pos = r.pos + n]
        ELSE [pos |-> r.pos + got, err |-> "struct.error"]

\* FID.seek(d, 1): relative, the target may lie beyond the end of the file
\* but not before its start (OSError, the cursor unmoved)
SeekCur(r, d) ==
    IF r.err # "" THEN r
    ELSE IF r.pos + d < 0 THEN [r EXCEPT !.err = "OSError"]
    ELSE [r EXCEPT !.pos = r.pos + d]

\* FID.seek(p, 0): absolute
SeekSet(r, p) ==
    IF r.err # "" THEN r
    ELSE IF p < 0 THEN [r EXCEPT !.err = "OSError"]
    ELSE [r EXCEPT !.pos = p]

\* ------------------------------------------------------------------------
\* ASCII
\* ------------------------------------------------------------------------

Chr == [c \in {"#","0","1","A","B","C","D","E","H","I","K","L","M","O","P",
               "Q","R","S","T","V","W","X","Z","m"} |->
          CASE c = "#" -> 35 [] c = "0" -> 48 [] c = "1" -> 49
            [] c = "A" -> 65 [] c = "B" -> 66 [] c = "C" -> 67
            [] c = "D" -> 68 [] c = "E" -> 69 [] c = "H" -> 72
            [] c = "I" -> 73 [] c = "K" -> 75 [] c = "L" -> 76
            [] c = "M" -> 77 [] c = "O" -> 79 [] c = "P" -> 80
            [] c = "Q" -> 81 [] c = "R" -> 82 [] c = "S" -> 83
            [] c = "T" -> 84 [] c = "V" -> 86 [] c = "W" -> 87
            [] c = "X" -> 88 [] c = "Z" -> 90 [] c = "m" -> 109]

\* the bytes of a 3-letter identifier
Id(a, b, c) == << Chr[a], Chr[b], Chr[c] >>

\* the 4 tag bytes b'#abc'
Tag(a, b, c) == << Chr["#"] >> \o Id(a, b, c)

\* tmp.decode('UTF-8') succeeds: every byte is ASCII.  (Exact for the files
\* of this model, in which no byte >= 128 is followed by a continuation
\* byte, so that no multi-byte sequence is well formed.)
Utf8Ok(b) == \A i \in 1..Len(b) : b[i] < 128

\* ------------------------------------------------------------------------
\* Datagram struct decoders (cursor movement)
\* ------------------------------------------------------------------------

\* read_EMdgmHeader: one fixed read
read_EMdgmHeader(f, r) == Fixed(f, r, HeaderSize)

\* the fields of the header at offset p
HeaderDg(f, p) ==
    [numBytesDgm |-> u32(f, p), dgmType |-> SubSeq(f, p + 5, p + 8),
     dgmVersion |-> u8(f, p + 8), systemID |-> u8(f, p + 9),
     echoSounderID |-> u16(f, p + 10),
     time_sec |-> u32(f, p + 12), time_nanosec |-> u32(f, p + 16)]

\* read_EMdgmMpartition: one fixed read
read_EMdgmMpartition(f, r) == Fixed(f, r, MpartitionSize)

\* the known fields alone, no skip to the declared size
DeclaredSizeStruct_fieldsOnly(f, r, k) == Fixed(f, r, k)

\* A sub-struct that declares its own size in its first u16: the known
\* fields (k bytes) are unpacked, then FID.seek(declared - k, 1)
DeclaredSizeStruct(f, r, k) ==
    LET a == Fixed(f, r, k)
    IN  IF a.err # "" THEN a ELSE SeekCur(a, u16(f, r.pos) - k)

\* read_EMdgmMbody
read_EMdgmMbody(f, r) == DeclaredSizeStruct(f, r, MbodySize)

\* read_EMdgmMRZ_pingInfo: two unpacks, then
\* FID.seek(numBytesInfoData - size_a - size_b, 1)
read_EMdgmMRZ_pingInfo(f, r) ==
    LET a == Fixed(f, r, PingInfoSizeA)
        b == Fixed(f, a, PingInfoSizeB)
    IN  IF b.err # "" THEN b
        ELSE SeekCur(b, u16(f, r.pos) - PingInfoSizeA - PingInfoSizeB)

\* read_EMdgmMRZ_txSectorInfo (no size field)
read_EMdgmMRZ_txSectorInfo(f, r) == Fixed(f, r, TxSectorInfoSize)

\* read_EMdgmMRZ_rxInfo
read_EMdgmMRZ_rxInfo(f, r) == DeclaredSizeStruct(f, r, RxInfoSize)

\* read_EMdgmMRZ_extraDetClassInfo (no size field)
read_EMdgmMRZ_extraDetClassInfo(f, r) == Fixed(f, r, ExtraDetClassInfoSize)

\* read_EMdgmMRZ_sounding (no size field)
read_EMdgmMRZ_sounding(f, r) == Fixed(f, r, SoundingSize)

\* read_EMdgmMWCtxInfo
read_EMdgmMWCtxInfo(f, r) == DeclaredSizeStruct(f, r, MWCtxInfoSize)

\* read_EMdgmMWCtxSectorData (no size field)
read_EMdgmMWCtxSectorData(f, r) == Fixed(f, r, MWCtxSectorDataSize)

\* read_EMdgmMWCrxInfo
read_EMdgmMWCrxInfo(f, r) == DeclaredSizeStruct(f, r, MWCrxInfoSize)

\* read_EMdgmScommon
read_EMdgmScommon(f, r) == DeclaredSizeStruct(f, r, ScommonSize)

\* read_EMdgmSKMinfo
read_EMdgmSKMinfo(f, r) == DeclaredSizeStruct(f, r, SKMinfoSize)

\* read_EMdgmSVTinfo
read_EMdgmSVTinfo(f, r) == DeclaredSizeStruct(f, r, SVTinfoSize)

\* for x in range(n): fixed read of `size` bytes
RECURSIVE Repeat(_, _, _, _)
Repeat(f, r, n, size) ==
    IF n <= 0 \/ r.err # "" THEN r
    ELSE Repeat(f, Fixed(f, r, size), n - 1, size)

\* ------------------------------------------------------------------------
\* Composite record decoders (cursor movement).  Each takes the file and
\* the cursor at entry and returns the reader state when the method returns
\* or raises.
\* ------------------------------------------------------------------------

\* The text block of #IIP / #IOP: FID.read(numBytesCmnPart - k), where a
\* length of -1 reads to the end of the file and a smaller one raises
\* ValueError; then tmp.decode('UTF-8')
TextBlock(f, r, n) ==
    LET txt == IF n = -1 THEN ReadBytes(f, r.pos, Len(f)) ELSE ReadBytes(f, r.pos, n)
    IN  IF r.err # "" THEN r
        ELSE IF n < -1 THEN [r EXCEPT !.err = "ValueError"]
        ELSE IF ~Utf8Ok(txt) THEN [pos |-> r.pos + Len(txt), err |-> "UnicodeDecodeError"]
        ELSE [r EXCEPT !.pos = r.pos + Len(txt)]

\* read_EMdgmIIP / read_EMdgmIOP with k the size of the fixed part: the
\* skip over the unknown fields is relative,
\* numBytesDgm - (header_size + numBytesCmnPart)
ReadParamText(f, p, k) ==
    LET r1 == read_EMdgmHeader(f, Rd(p))
        r2 == Fixed(f, r1, k)
        r3 == IF r2.err # "" THEN r2 ELSE TextBlock(f, r2, u16(f, r1.pos) - k)
    IN  IF r3.err # "" THEN r3
        ELSE SeekCur(r3, u32(f, p) - (HeaderSize + u16(f, r1.pos)))

read_EMdgmIIP(f, p) == ReadParamText(f, p, IIPfixedSize)

read_EMdgmIOP(f, p) == ReadParamText(f, p, IOPfixedSize)

\* self.FID.seek(start + dg['header']['numBytesDgm'], 0), the last
\* statement of every other composite decoder
SeekToEnd(f, r, start) ==
    IF r.err # "" THEN r ELSE SeekSet(r, start + u32(f, start))

\* SInumSamples of the first sounding alone
SumSInumSamples_firstOnly(f, p, n) == IF n <= 0 THEN 0 ELSE u16(f, p + 118)

\* the sounding loop of read_EMdgmMRZ: Nseabedimage_samples, the sum of
\* SInumSamples over the n soundings that start at offset p
RECURSIVE SumSInumSamples(_, _, _)
SumSInumSamples(f, p, n) ==
    IF n <= 0 THEN 0
    ELSE u16(f, p + 118) + SumSInumSamples(f, p + SoundingSize, n - 1)

\* read_EMdgmMRZ from the soundings on, r7 the reader state before them and
\* m what is known of the earlier parts: the soundings, then the seabed
\* imagery samples
MRZfromSoundings(f, r7, nSnd, m) ==
    LET r8 == Repeat(f, r7, nSnd, SoundingSize)
        nSI == IF r8.err = "" THEN SumSInumSamples(f, r7.pos, nSnd) ELSE 0
    IN  [cmn |-> m.cmn, ping |-> m.ping, sectors |-> m.sectors, rx |-> m.rx,
         classes |-> m.classes, nTx |-> m.nTx, nCls |-> m.nCls,
         soundings |-> r7.pos, imagery |-> r8.pos, nSnd |-> nSnd, nSI |-> nSI,
         upto |-> r7, last |-> Fixed(f, r8, 2 * nSI)]

\* read_EMdgmMRZ from the rx info on, r5 the reader state before it
MRZfromRxInfo(f, r5, m) ==
    LET r6 == read_EMdgmMRZ_rxInfo(f, r5)
        nCls == IF r6.err = "" THEN u16(f, r5.pos + 28) ELSE 0
        nSnd == IF r6.err = "" THEN u16(f, r5.pos + 26) + u16(f, r5.pos + 2) ELSE 0
    IN  MRZfromSoundings(f, Repeat(f, r6, nCls, ExtraDetClassInfoSize), nSnd,
            [cmn |-> m.cmn, ping |-> m.ping, sectors |-> m.sectors, nTx |-> m.nTx,
             rx |-> r5.pos, classes |-> r6.pos, nCls |-> nCls])

\* read_EMdgmMRZ from the ping info on, r3 the reader state before it
MRZfromPingInfo(f, r3, cmn) ==
    LET r4 == read_EMdgmMRZ_pingInfo(f, r3)
        nTx == IF r4.err = "" THEN u16(f, r3.pos + 92) ELSE 0
    IN  MRZfromRxInfo(f, Repeat(f, r4, nTx, TxSectorInfoSize),
            [cmn |-> cmn, ping |-> r3.pos, sectors |-> r4.pos, nTx |-> nTx])

\* read_EMdgmMRZ up to and including the seabed imagery: the offsets of
\* the parts, the counts, and the reader state after the last part
MRZparts(f, p) ==
    LET r2 == read_EMdgmMpartition(f, read_EMdgmHeader(f, Rd(p)))
    IN  MRZfromPingInfo(f, read_EMdgmMbody(f, r2), r2.pos)

read_EMdgmMRZ(f, p) == SeekToEnd(f, MRZparts(f, p).last, p)

\* the beam loop of read_EMdgmMWC: per beam the fixed metadata, the
\* numSampleData amplitude bytes and, for phaseFlag 1 and for phaseFlag 2
\* alike, read_EMdgmMWCrxBeamPhase1(numBeams, numSampleData), which unpacks
\* numBeams * numSampleData signed bytes
RECURSIVE MWCbeams(_, _, _, _, _)
MWCbeams(f, r, left, numBeams, phaseFlag) ==
    IF left <= 0 \/ r.err # "" THEN r
    ELSE LET a == Fixed(f, r, MWCrxBeamDataSize)
             ns == IF a.err = "" THEN u16(f, r.pos + 10) ELSE 0
             b == Fixed(f, a, ns)
             c == IF phaseFlag \in {1, 2} THEN Fixed(f, b, numBeams * ns) ELSE b
         IN  MWCbeams(f, c, left - 1, numBeams, phaseFlag)

read_EMdgmMWC(f, p) ==
    LET r1 == read_EMdgmHeader(f, Rd(p))
        r2 == read_EMdgmMpartition(f, r1)
        r3 == read_EMdgmMbody(f, r2)
        r4 == read_EMdgmMWCtxInfo(f, r3)
        nTx == IF r4.err = "" THEN u16(f, r3.pos + 2) ELSE 0
        r5 == Repeat(f, r4, nTx, MWCtxSectorDataSize)
        r6 == read_EMdgmMWCrxInfo(f, r5)
        ok6 == r6.err = ""
        numBeams == IF ok6 THEN u16(f, r5.pos + 2) ELSE 0
        phaseFlag == IF ok6 THEN u8(f, r5.pos + 5) ELSE 0
        r7 == MWCbeams(f, r6, numBeams, numBeams, phaseFlag)
    IN  SeekToEnd(f, r7, p)

\* header, common sensor part, then fixed data blocks of sizes a and b
\* (#SPO, #CPO: two unpacks; #SCL, #SDE, #SHI: one, b = 0)
ReadSensor(f, p, a, b) ==
    LET r1 == read_EMdgmHeader(f, Rd(p))
        r2 == read_EMdgmScommon(f, r1)
        r3 == Fixed(f, r2, a)
        r4 == Fixed(f, r3, b)
    IN  SeekToEnd(f, r4, p)

read_EMdgmSPO(f, p) == ReadSensor(f, p, SPOblockSizeA, SPOblockSizeB)

read_EMdgmCPO(f, p) == ReadSensor(f, p, SPOblockSizeA, SPOblockSizeB)

read_EMdgmSCL(f, p) == ReadSensor(f, p, SCLdataSize, 0)

read_EMdgmSDE(f, p) == ReadSensor(f, p, SDEdataSize, 0)

read_EMdgmSHI(f, p) == ReadSensor(f, p, SHIdataSize, 0)

\* read_KMbinary then read_KMdelayedHeave, numSamplesArray times: the
\* 4 type bytes are read raw and decoded as UTF-8, the rest unpacked
RECURSIVE SKMsamples(_, _, _)
SKMsamples(f, r, left) ==
    IF left <= 0 \/ r.err # "" THEN r
    ELSE LET t == ReadBytes(f, r.pos, KMbinaryTypeSize)
             a == IF Utf8Ok(t) THEN [r EXCEPT !.pos = r.pos + Len(t)]
                  ELSE [pos |-> r.pos + Len(t), err |-> "UnicodeDecodeError"]
             b == Fixed(f, a, KMbinaryInfoSize)
             c == Fixed(f, b, KMbinaryPosSize)
             d == Fixed(f, c, KMbinaryDataSize)
             e == Fixed(f, d, KMdelayedHeaveSize)
         IN  SKMsamples(f, e, left - 1)

read_EMdgmSKM(f, p) ==
    LET r1 == read_EMdgmHeader(f, Rd(p))
        r2 == read_EMdgmSKMinfo(f, r1)
        n == IF r2.err = "" THEN u16(f, r1.pos + 6) ELSE 0
    IN  SeekToEnd(f, SKMsamples(f, r2, n), p)

read_EMdgmSVP(f, p) ==
    LET r1 == read_EMdgmHeader(f, Rd(p))
        r2 == Fixed(f, r1, SVPfixedSizeA)
        n == IF r2.err = "" THEN u16(f, r1.pos + 2) ELSE 0
        r3 == Fixed(f, r2, SVPfixedSizeB)
        r4 == Repeat(f, r3, n, SVPpointSize)
    IN  SeekToEnd(f, r4, p)

read_EMdgmSVT(f, p) ==
    LET r1 == read_EMdgmHeader(f, Rd(p))
        r2 == read_EMdgmSVTinfo(f, r1)
        n == IF r2.err = "" THEN u16(f, r1.pos + 6) ELSE 0
        r3 == Repeat(f, r2, n, SVTsampleSize)
    IN  SeekToEnd(f, r3, p)

read_EMdgmCHE(f, p) ==
    LET r1 == read_EMdgmHeader(f, Rd(p))
        r2 == read_EMdgmMbody(f, r1)
        r3 == Fixed(f, r2, CHEdataSize)
    IN  SeekToEnd(f, r3, p)

\* ------------------------------------------------------------------------
\* Stream scanner: decode_datagram, skip_datagram, read_datagram
\* ------------------------------------------------------------------------

\* _build_startbytesearch: b'#[CIMS][CDHIKOPRVWZ][CEILMOPTZ01]'.  On at most
\* four bytes the expression can match only at index 0 of exactly four.
datagram_ident_search(b) ==
    /\ Len(b) = 4
    /\ b[1] = Chr["#"]
    /\ b[2] \in {Chr["C"], Chr["I"], Chr["M"], Chr["S"]}
    /\ b[3] \in {Chr["C"], Chr["D"], Chr["H"], Chr["I"], Chr["K"], Chr["O"],
                 Chr["P"], Chr["R"], Chr["V"], Chr["W"], Chr["Z"]}
    /\ b[4] \in {Chr["C"], Chr["E"], Chr["I"], Chr["L"], Chr["M"], Chr["O"],
                 Chr["P"], Chr["T"], Chr["Z"], Chr["0"], Chr["1"]}

\* self.read_methods: the attributes whose name starts with 'read', each
\* with the last three characters of its name.  The methods left out here
\* (read_datagram, read_EMdgmHeader, read_EMdgmMRZ_pingInfo, ...) end in
\* lower-case letters, as read_EMdgmIB ('mIB') does, and match no tag.
read_methods ==
    { [name |-> "read_EMdgmIIP", suffix |-> Id("I","I","P")],
      [name |-> "read_EMdgmIOP", suffix |-> Id("I","O","P")],
      [name |-> "read_EMdgmIB",  suffix |-> Id("m","I","B")],
      [name |-> "read_EMdgmMRZ", suffix |-> Id("M","R","Z")],
      [name |-> "read_EMdgmMWC", suffix |-> Id("M","W","C")],
      [name |-> "read_EMdgmSPO", suffix |-> Id("S","P","O")],
      [name |-> "read_EMdgmSKM", suffix |-> Id("S","K","M")],
      [name |-> "read_EMdgmSVP", suffix |-> Id("S","V","P")],
      [name |-> "read_EMdgmSVT", suffix |-> Id("S","V","T")],
      [name |-> "read_EMdgmSCL", suffix |-> Id("S","C","L")],
      [name |-> "read_EMdgmSDE", suffix |-> Id("S","D","E")],
      [name |-> "read_EMdgmSHI", suffix |-> Id("S","H","I")],
      [name |-> "read_EMdgmCPO", suffix |-> Id("C","P","O")],
      [name |-> "read_EMdgmCHE", suffix |-> Id("C","H","E")],
      [name |-> "read_EMdgmCZ0", suffix |-> Id("C","Z","0")],
      [name |-> "read_EMdgmCZ1", suffix |-> Id("C","Z","1")] }

\* [rm for rm in self.read_methods if rm[-3:] == self.datagram_ident]
MethodsFor(ident) == { m.name : m \in { x \in read_methods : x.suffix = ident } }

\* What decode_datagram does with the cursor at p and self.file_size = fs
\* (after the file-size initialisation): two reads of 4 bytes; at the end of the file eof,
\* otherwise FID.seek(-8, 1), the identifier check and the method lookup.
DecodeAt(f, p, fs) ==
    LET num_bytes == ReadBytes(f, p, 4)
        p1 == p + Len(num_bytes)
        dgram == ReadBytes(f, p1, 4)
        p2 == p1 + Len(dgram)
        ident == SubSeq(dgram, 2, 4)
        ms == MethodsFor(ident)
    IN  IF p2 = fs
        THEN [pos |-> p2, eof |-> TRUE, ident |-> << >>, method |-> "None", err |-> ""]
        ELSE IF p2 - 8 < 0
        THEN [pos |-> p2, eof |-> FALSE, ident |-> << >>, method |-> "None", err |-> "OSError"]
        ELSE IF ~datagram_ident_search(dgram)
        THEN [pos |-> p2 - 8, eof |-> FALSE, ident |-> << >>, method |-> "None",
              err |-> "ValueError"]
        ELSE IF Cardinality(ms) > 1
        THEN [pos |-> p2 - 8, eof |-> FALSE, ident |-> ident, method |-> "None",
              err |-> "ValueError"]
        ELSE IF ms = {}
        THEN [pos |-> p2 - 8, eof |-> FALSE, ident |-> ident, method |-> "None",
              err |-> "IndexError"]
        ELSE [pos |-> p2 - 8, eof |-> FALSE, ident |-> ident,
              method |-> CHOOSE m \in ms : TRUE, err |-> ""]

\* The cursor decode_datagram starts to read at: on the first call of an
\* instance (file_size is None) _initialize_sequential_read(0, 0) measures
\* the file and ends with FID.seek(start_ptr, 0), start_ptr = 0
DecodeStart == IF file_size = NoSize THEN 0 ELSE IF FID = "None" THEN 0 ELSE pos

\* OpenFiletoRead: self.FID = open(filetoopen, "rb")
OpenFiletoRead ==
    /\ FID = "None"
    /\ FID' = "open"
    /\ pos' = 0
    /\ op' = "open"
    /\ P0' = 0
    /\ err' = ""
    /\ UNCHANGED <<arg, result, file, file_size, eof, datagram_ident, read_method, datagram_data, out>>

\* the datagram boundaries of file f from offset p on, following the
\* declared lengths (where a caller that walks the file can stand)
RECURSIVE Boundaries(_, _)
Boundaries(f, p) ==
    IF p + 4 > Len(f) \/ u32(f, p) = 0 THEN {p}
    ELSE {p} \cup Boundaries(f, p + u32(f, p))

\* The caller positions the cursor: k.FID.seek(offset, 0)
Seek ==
    /\ FID = "open"
    /\ \E p \in Boundaries(file, 0) \cup {Len(file)} :
          /\ pos' = p
          /\ P0' = pos
    /\ op' = "seek"
    /\ err' = ""
    /\ UNCHANGED <<arg, result, file, file_size, eof, datagram_ident, read_method, datagram_data,
                   FID, out>>

\* decode_datagram
decode_datagram ==
    LET d == DecodeAt(file, DecodeStart, Len(file))
    IN  /\ FID' = "open"
        /\ file_size' = Len(file)
        /\ P0' = IF FID = "None" THEN 0 ELSE pos
        /\ pos' = d.pos
        /\ eof' = IF d.eof THEN TRUE ELSE IF file_size = NoSize THEN FALSE ELSE eof
        /\ datagram_ident' = d.ident
        /\ read_method' = d.method
        /\ err' = d.err
        /\ op' = "decode"
        /\ UNCHANGED <<arg, result, file, datagram_data, out>>

\* skip_datagram, called when decode_datagram has returned: nothing unless
\* a read method was found; else the length is unpacked and
\* FID.seek(numbytes - 4, 1)
SkipAt(f, p) ==
    LET a == Fixed(f, Rd(p), LenFieldSize)
    IN  IF a.err # "" THEN a ELSE SeekCur(a, u32(f, p) - LenFieldSize)

skip_datagram ==
    /\ FID = "open"
    /\ op = "decode" /\ err = ""
    /\ LET r == IF read_method = "None" THEN Rd(pos) ELSE SkipAt(file, pos)
       IN  /\ pos' = r.pos
           /\ err' = r.err
    /\ P0' = pos
    /\ op' = "skip"
    /\ UNCHANGED <<arg, result, file, file_size, eof, datagram_ident, read_method, datagram_data,
                   FID, out>>

\* ------------------------------------------------------------------------
\* Decoded records
\* ------------------------------------------------------------------------

\* round(a / b), b > 0, ties to even
RoundDiv(a, b) ==
    LET q == a \div b
        r2 == 2 * (a % b)
    IN  IF r2 < b \/ (r2 = b /\ q % 2 = 0) THEN q ELSE q + 1

\* dg['dgtime'] = time_sec + time_nanosec / 1.0E9 as the float it is.  For
\* time_sec in [2^30, 2^31) (the years 2004 to 2038) the sum is rounded to
\* a multiple of 2^-22 s: ticks = round(nanosec * 2^22 / 10^9), the
\* fraction reduced by 2^9, 2^22 / 10^9 = 8192 / 1953125
dgtime(sec, nanosec) == [sec |-> sec, ticks |-> RoundDiv(nanosec * 8192, 1953125)]

\* the dictionary read_EMdgmHeader returns for the header at offset p: the
\* two time fields are kept only as their sum dgtime (and dgdatetime, a
\* function of dgtime)
HeaderRec(f, p) ==
    LET h == HeaderDg(f, p)
    IN  [numBytesDgm |-> h.numBytesDgm, dgmType |-> h.dgmType,
         dgmVersion |-> h.dgmVersion, systemID |-> h.systemID,
         echoSounderID |-> h.echoSounderID,
         dgtime |-> dgtime(h.time_sec, h.time_nanosec)]

\* struct.unpack("h", ...) of the two bytes at 0-based offset o
s16(f, o) == IF u16(f, o) >= 32768 THEN u16(f, o) - 65536 ELSE u16(f, o)

\* the n bytes at 0-based offset o
Bytes(f, o, n) == SubSeq(f, o + 1, o + n)

\* listofdicts2dictoflists: None for an empty list, else one list per key
listofdicts2dictoflists(l) ==
    IF Len(l) = 0 THEN [kind |-> "None"]
    ELSE [k \in DOMAIN l[1] |-> [i \in 1..Len(l) |-> l[i][k]]]

\* the dictionaries of the sub-struct decoders; fields the model does not
\* interpret are kept together as the bytes they were unpacked from
MpartitionRec(f, o) == [numOfDgms |-> u16(f, o), dgmNum |-> u16(f, o + 2)]

MbodyRec(f, o) == [numBytesCmnPart |-> u16(f, o), fields |-> Bytes(f, o + 2, 10)]

MRZ_pingInfoRec(f, o) ==
    [numBytesInfoData |-> u16(f, o), fieldsA |-> Bytes(f, o + 2, 90),
     numTxSectors |-> u16(f, o + 92), numBytesPerTxSector |-> u16(f, o + 94),
     fieldsB |-> Bytes(f, o + 96, 48)]

MRZ_txSectorInfoRec(f, o) ==
    [txSectorNumb |-> u8(f, o), fields |-> Bytes(f, o + 1, 35)]

MRZ_rxInfoRec(f, o) ==
    [numBytesRxInfo |-> u16(f, o), numSoundingsMaxMain |-> u16(f, o + 2),
     numSoundingsValidMain |-> u16(f, o + 4), numBytesPerSounding |-> u16(f, o + 6),
     fields |-> Bytes(f, o + 8, 16), extraDetectionAlarmFlag |-> u16(f, o + 24),
     numExtraDetections |-> u16(f, o + 26),
     numExtraDetectionClasses |-> u16(f, o + 28),
     numBytesPerClass |-> u16(f, o + 30)]

MRZ_extraDetClassInfoRec(f, o) ==
    [numExtraDetInClass |-> u16(f, o), fields |-> Bytes(f, o + 2, 2)]

MRZ_soundingRec(f, o) ==
    [soundingIndex |-> u16(f, o), fields |-> Bytes(f, o + 2, 116),
     SInumSamples |-> u16(f, o + 118)]

\* the dictionary read_EMdgmMRZ builds from the parts m of the datagram at
\* offset p (when it returns)
MRZdict(f, p, m) ==
    [kind |-> "MRZ",
     header |-> HeaderRec(f, p),
     partition |-> MpartitionRec(f, m.cmn - MpartitionSize),
     cmnPart |-> MbodyRec(f, m.cmn),
     pingInfo |-> MRZ_pingInfoRec(f, m.ping),
     txSectorInfo |-> listofdicts2dictoflists(
         [i \in 1..m.nTx |->
             MRZ_txSectorInfoRec(f, m.sectors + (i - 1) * TxSectorInfoSize)]),
     rxInfo |-> MRZ_rxInfoRec(f, m.rx),
     extraDetClassInfo |-> listofdicts2dictoflists(
         [i \in 1..m.nCls |->
             MRZ_extraDetClassInfoRec(f, m.classes + (i - 1) * ExtraDetClassInfoSize)]),
     sounding |-> listofdicts2dictoflists(
         [i \in 1..m.nSnd |->
             MRZ_soundingRec(f, m.soundings + (i - 1) * SoundingSize)]),
     SIsample_desidB |-> [i \in 1..m.nSI |-> s16(f, m.imagery + 2 * (i - 1))]]

\* the dictionary read_EMdgmMRZ returns for the datagram at offset p
MRZrec(f, p) == MRZdict(f, p, MRZparts(f, p))

\* ------------------------------------------------------------------------
\* read_datagram and the direct decoder calls of kmall_tester.py
\* ------------------------------------------------------------------------

\* read_EMdgmIB: the header and the fixed fields are unpacked, then the
\* text is read through the undefined name FID: NameError
read_EMdgmIB(f, p) ==
    LET r1 == read_EMdgmHeader(f, Rd(p))
        r2 == Fixed(f, r1, IBfixedSize)
    IN  IF r2.err # "" THEN r2 ELSE [r2 EXCEPT !.err = "NameError"]

\* getattr(self, self.read_method)() with the cursor at p
Call(m, f, p) ==
    CASE m = "read_EMdgmIIP" -> read_EMdgmIIP(f, p)
      [] m = "read_EMdgmIOP" -> read_EMdgmIOP(f, p)
      [] m = "read_EMdgmIB"  -> read_EMdgmIB(f, p)
      [] m = "read_EMdgmMRZ" -> read_EMdgmMRZ(f, p)
      [] m = "read_EMdgmMWC" -> read_EMdgmMWC(f, p)
      [] m = "read_EMdgmSPO" -> read_EMdgmSPO(f, p)
      [] m = "read_EMdgmSKM" -> read_EMdgmSKM(f, p)
      [] m = "read_EMdgmSVP" -> read_EMdgmSVP(f, p)
      [] m = "read_EMdgmSVT" -> read_EMdgmSVT(f, p)
      [] m = "read_EMdgmSCL" -> read_EMdgmSCL(f, p)
      [] m = "read_EMdgmSDE" -> read_EMdgmSDE(f, p)
      [] m = "read_EMdgmSHI" -> read_EMdgmSHI(f, p)
      [] m = "read_EMdgmCPO" -> read_EMdgmCPO(f, p)
      [] m = "read_EMdgmCHE" -> read_EMdgmCHE(f, p)

\* the dictionary the decoder returns: the #MRZ record in full, of the
\* other types the header
Returned(m, f, p) ==
    IF m = "read_EMdgmMRZ" THEN MRZrec(f, p)
    ELSE [kind |-> m, header |-> HeaderRec(f, p)]

\* read_datagram, called when decode_datagram has returned
read_datagram ==
    /\ FID = "open"
    /\ op = "decode" /\ err = ""
    /\ LET r == IF read_method = "None" THEN Rd(pos) ELSE Call(read_method, file, pos)
       IN  /\ pos' = r.pos
           /\ err' = r.err
           /\ datagram_data' = IF read_method # "None" /\ r.err = ""
                               THEN Returned(read_method, file, pos)
                               ELSE datagram_data
    /\ P0' = pos
    /\ op' = "read"
    /\ UNCHANGED <<arg, result, file, file_size, eof, datagram_ident, read_method, FID, out>>

\* kmall_tester.py: the decoder the tester calls for a datagram tag
TesterMethod(tag) ==
    IF tag \in {Tag("I","B","E"), Tag("I","B","R"), Tag("I","B","S")}
    THEN {"read_EMdgmIB"}
    ELSE MethodsFor(SubSeq(tag, 2, 4)) \ {"read_EMdgmCZ0", "read_EMdgmCZ1"}

\* kmall_tester.py: k.FID.seek(offset, 0); dg = k.read_EMdgmXXX() for the
\* offsets of the datagrams of the types it lists
tester_read ==
    /\ FID = "open"
    /\ \E p \in Boundaries(file, 0) :
          /\ p + 8 <= Len(file)
          /\ \E m \in TesterMethod(Bytes(file, p + 4, 4)) :
                LET r == Call(m, file, p)
                IN  /\ pos' = r.pos
                    /\ err' = r.err
          /\ P0' = p
    /\ op' = "tester_read"
    /\ UNCHANGED <<arg, result, file, file_size, eof, datagram_ident, read_method, datagram_data,
                   FID, out>>

\* ------------------------------------------------------------------------
\* Input files: datagrams laid out as the decoders' formats define them
\* ------------------------------------------------------------------------

\* b repeated n times
RepeatBytes(b, n) == [i \in 1..(n * Len(b)) |-> b[((i - 1) % Len(b)) + 1]]

\* n bytes of ASCII text
Text(n) == [i \in 1..n |-> Chr["A"]]

\* the leading n bytes of f
Take(f, n) == SubSeq(f, 1, n)

\* "1I4s2B1H2I": numBytesDgm, dgmType, dgmVersion, systemID, echoSounderID,
\* time_sec = 2^30 (January 2004), time_nanosec
Header(L, tag, nanosec) ==
    U32le(L) \o tag \o << 1, 2 >> \o U16le(2040) \o << 0, 0, 0, 64 >> \o U32le(nanosec)

\* header, body and the closing repeat of the length
Frame(tag, body, nanosec) ==
    LET L == HeaderSize + Len(body) + LenFieldSize
    IN  Header(L, tag, nanosec) \o body \o U32le(L)

\* #IIP / #IOP / #IB body: numBytesCmnPart = declared, the rest of the k
\* fixed bytes, n bytes of text
ParamBody(k, declared, n) == U16le(declared) \o Zeros(k - 2) \o Text(n)

\* a sub-struct of k known bytes declaring k + e, with a u16 count at offset c
SizedPart(k, e, c, count) ==
    U16le(k + e) \o Zeros(c - 2) \o U16le(count) \o Zeros(k - c - 2 + e)

\* "2H": numOfDgms = 1, dgmNum = 1
Mpartition == << 1, 0, 1, 0 >>

\* "2H8B" with numBytesCmnPart = 12 + e (pingCnt is the count slot)
Mbody(e) == SizedPart(MbodySize, e, 2, 0)

\* EMdgmMRZ_pingInfo: numTxSectors at 92, numBytesPerTxSector at 94
MRZ_pingInfo(nTx, e) ==
    U16le(PingInfoSizeA + PingInfoSizeB + e) \o Zeros(90) \o U16le(nTx)
        \o U16le(TxSectorInfoSize) \o Zeros(48 + e)

\* EMdgmMRZ_rxInfo "4H4f4H"
MRZ_rxInfo(nMain, nExtra, nCls, e) ==
    U16le(RxInfoSize + e) \o U16le(nMain) \o U16le(nMain) \o U16le(SoundingSize)
        \o Zeros(16) \o U16le(0) \o U16le(nExtra) \o U16le(nCls)
        \o U16le(ExtraDetClassInfoSize) \o Zeros(e)

\* EMdgmMRZ_sounding with SInumSamples = si
MRZ_sounding(si) == U16le(7) \o Zeros(116) \o U16le(si)

\* the body of a #MRZ datagram: nTx sectors, nCls classes, nMain + nExtra
\* soundings of si imagery samples each (the sample value -2), e unknown
\* bytes at the end of each sized part and of the datagram
MRZbody(nTx, nCls, nMain, nExtra, si, e) ==
    Mpartition \o Mbody(e) \o MRZ_pingInfo(nTx, e)
        \o RepeatBytes(<< 3 >> \o Zeros(TxSectorInfoSize - 1), nTx)
        \o MRZ_rxInfo(nMain, nExtra, nCls, e)
        \o RepeatBytes(<< 5, 0, 0, 0 >>, nCls)
        \o RepeatBytes(MRZ_sounding(si), nMain + nExtra)
        \o RepeatBytes(<< 254, 255 >>, (nMain + nExtra) * si)
        \o Zeros(e)

\* one beam of a #MWC datagram as read_EMdgmMWC consumes it
MWCbeam(numBeams, ns, phaseFlag) ==
    Zeros(10) \o U16le(ns) \o Zeros(ns)
        \o (IF phaseFlag \in {1, 2} THEN Zeros(numBeams * ns) ELSE << >>)

MWCbody(nTx, numBeams, ns, phaseFlag, e) ==
    Mpartition \o Mbody(e) \o SizedPart(MWCtxInfoSize, e, 2, nTx)
        \o Zeros(nTx * MWCtxSectorDataSize)
        \o U16le(MWCrxInfoSize + e) \o U16le(numBeams) \o << MWCrxBeamDataSize, phaseFlag >>
        \o Zeros(MWCrxInfoSize - 6 + e)
        \o RepeatBytes(MWCbeam(numBeams, ns, phaseFlag), numBeams)
        \o Zeros(e)

\* EMdgmScommon "4H" with numBytesCmnPart = 8 + e
Scommon(e) == SizedPart(ScommonSize, e, 2, 0)

\* #SPO, #CPO, #SCL, #SDE, #SHI: common part and n data bytes
SensorBody(n, e) == Scommon(e) \o Zeros(n + e)

\* one #SKM sample: b'#KMB' and the rest of EMdgmSKMsample
SKMsample == Tag("K", "M", "B")
    \o Zeros(KMbinaryInfoSize + KMbinaryPosSize + KMbinaryDataSize + KMdelayedHeaveSize)

SKMbody(n, e) ==
    SizedPart(SKMinfoSize, e, 6, n) \o RepeatBytes(SKMsample, n) \o Zeros(e)

SVPbody(n, e) ==
    SizedPart(SVPfixedSizeA, 0, 2, n) \o Zeros(SVPfixedSizeB + n * SVPpointSize + e)

SVTbody(n, e) == SizedPart(SVTinfoSize, e, 6, n) \o Zeros(n * SVTsampleSize + e)

CHEbody(e) == Mbody(e) \o Zeros(CHEdataSize + e)

\* ------------------------------------------------------------------------
\* The scanner on a file: specification SpecScan
\* ------------------------------------------------------------------------

\* a datagram stamped 500 ns after the second
ScanFrame(tag, body) == Frame(tag, body, 500)

\* one datagram of each type that has a decoder, counts c, e unknown bytes
StandardDgms(c, e) ==
    { ScanFrame(Tag("I","I","P"), ParamBody(IIPfixedSize, IIPfixedSize + c, c) \o Zeros(e)),
      ScanFrame(Tag("I","O","P"), ParamBody(IOPfixedSize, IOPfixedSize + c, c) \o Zeros(e)),
      ScanFrame(Tag("M","R","Z"), MRZbody(c, c, c, c, c, e)),
      ScanFrame(Tag("M","W","C"), MWCbody(c, c, c, c, e)),
      ScanFrame(Tag("S","P","O"), SensorBody(SPOblockSizeA + SPOblockSizeB, e)),
      ScanFrame(Tag("C","P","O"), SensorBody(SPOblockSizeA + SPOblockSizeB, e)),
      ScanFrame(Tag("S","C","L"), SensorBody(SCLdataSize, e)),
      ScanFrame(Tag("S","D","E"), SensorBody(SDEdataSize, e)),
      ScanFrame(Tag("S","H","I"), SensorBody(SHIdataSize, e)),
      ScanFrame(Tag("S","K","M"), SKMbody(c, e)),
      ScanFrame(Tag("S","V","P"), SVPbody(c, e)),
      ScanFrame(Tag("S","V","T"), SVTbody(c, e)),
      ScanFrame(Tag("C","H","E"), CHEbody(e)) }

\* well-framed datagrams of other tags: the BIST types, a tag outside the
\* letters of the identifier expression, one inside them
OtherDgms ==
    { ScanFrame(t, ParamBody(IBfixedSize, IBfixedSize + 1, 1)) :
        t \in { Tag("I","B","E"), Tag("I","B","R"), Tag("I","B","S"),
                Tag("X","Q","Q"), Tag("S","V","C") } }

\* #IIP / #IOP datagrams whose numBytesCmnPart runs x bytes past the
\* closing length word
OverrunDgms(x) ==
    { ScanFrame(Tag("I","I","P"),
                ParamBody(IIPfixedSize, IIPfixedSize + 1 + LenFieldSize + x, 1)),
      ScanFrame(Tag("I","O","P"),
                ParamBody(IOPfixedSize, IOPfixedSize + 1 + LenFieldSize + x, 1)) }

ScanDgms ==
    UNION { StandardDgms(c, e) : c \in 0..MaxCount, e \in 0..MaxExtra }
        \cup OtherDgms
        \cup UNION { OverrunDgms(x) : x \in 1..MaxExtra }

\* what follows the first datagram: nothing, a second datagram, stray bytes
Tails ==
    { << >>, ScanFrame(Tag("S","V","T"), SVTbody(0, 0)),
      Zeros(3), Zeros(8), Zeros(9) }

\* complete files, and files cut short inside their only datagram
ScanFiles ==
    { d \o t : d \in ScanDgms, t \in Tails }
        \cup { Take(d, Len(d) - x) : d \in StandardDgms(1, 0), x \in 1..MaxExtra }

\* kmall(filename): the state after construction
InitScan ==
    /\ file \in ScanFiles
    /\ pos = 0
    /\ file_size = NoSize
    /\ eof = FALSE
    /\ datagram_ident = << >>
    /\ read_method = "None"
    /\ datagram_data = NoData
    /\ err = ""
    /\ op = "init"
    /\ P0 = 0
    /\ FID = "None"
    /\ out = << >>
    /\ arg = NoData
    /\ result = NoData

NextScan ==
    \/ OpenFiletoRead
    \/ Seek
    \/ decode_datagram
    \/ skip_datagram
    \/ read_datagram
    \/ tester_read

SpecScan == InitScan /\ [][NextScan]_vars

\* ------------------------------------------------------------------------
\* Properties of the scanner (SpecScan)
\* ------------------------------------------------------------------------

\* the tags of the datagram types that have a decoder
StandardTags ==
    { Tag("I","I","P"), Tag("I","O","P"), Tag("M","R","Z"), Tag("M","W","C"),
      Tag("S","P","O"), Tag("S","K","M"), Tag("S","V","P"), Tag("S","V","T"),
      Tag("S","C","L"), Tag("S","D","E"), Tag("S","H","I"), Tag("C","P","O"),
      Tag("C","H","E") }

\* the tags of the known set of types
KnownTags ==
    StandardTags \cup { Tag("I","B","E"), Tag("I","B","R"), Tag("I","B","S"),
                        Tag("C","Z","0"), Tag("C","Z","1") }

\* the 4 tag bytes of the datagram at offset p
TagAt(f, p) == Bytes(f, p + 4, 4)

\* a whole datagram lies at offset p of f: the declared length fits the
\* file and is repeated in the closing word
WellFramed(f, p) ==
    /\ p + HeaderSize + LenFieldSize <= Len(f)
    /\ u32(f, p) >= HeaderSize + LenFieldSize
    /\ p + u32(f, p) <= Len(f)
    /\ u32(f, p + u32(f, p) - LenFieldSize) = u32(f, p)

\* the last call was made with the cursor on a whole datagram with a tag in
\* tags
OnDatagram(tags) == WellFramed(file, P0) /\ TagAt(file, P0) \in tags

\* C1: for a datagram of a standard type at offset P with declared length L,
\* skip_datagram (after decode_datagram) and the full read_EMdgm* decode
\* each leave the cursor at exactly P + L, however many bytes the sub-struct
\* decoders consumed.
C1_BothPathsEndAtDeclaredEnd ==
    ( /\ OnDatagram(StandardTags)
      /\ err = ""
      /\ \/ op = "tester_read"
         \/ op \in {"skip", "read"} /\ read_method # "None" )
    => pos = P0 + u32(file, P0)

\* C2: decode_datagram is a pure peek: called with the cursor at P on a
\* datagram with a valid identifier, it reports the identifier of the
\* datagram at P and leaves the cursor at P; also on the first call of an
\* instance, made after the caller opened the file and positioned the cursor.
C2_DecodeIsPurePeek ==
    (op = "decode" /\ OnDatagram(StandardTags))
    => /\ pos = P0
       /\ err = ""
       /\ datagram_ident = SubSeq(TagAt(file, P0), 2, 4)

\* C3: with the cursor where a walk over the declared lengths puts it,
\* decode_datagram reports the end of the file (returns with eof set and no
\* read method) exactly when the cursor it reads at equals the file length;
\* with the cursor beyond the file length it raises an error.
C3_EofExactlyAtFileLength ==
    [][ (op' = "decode" /\ DecodeStart \in Boundaries(file, 0) \cup {Len(file)}) =>
          /\ (err' = "" /\ read_method' = "None" /\ eof') <=> (DecodeStart = Len(file))
          /\ (DecodeStart > Len(file)) => (err' # "") ]_vars

\* C4: on a well-framed datagram whose tag is '#' and three characters
\* outside the known set, decode_datagram raises no error and selects no
\* decoder (so that skip_datagram can pass over it by its declared length).
C4_UnknownTagIsSkipped ==
    ( /\ op = "decode"
      /\ pos = P0
      /\ WellFramed(file, P0)
      /\ TagAt(file, P0)[1] = Chr["#"]
      /\ TagAt(file, P0) \notin KnownTags )
    => (err = "" /\ read_method = "None")

\* the decoder of a known type: the one kmall_tester.py calls for the tag,
\* for #CZ0 and #CZ1 the method of that name
DecoderOf(tag) ==
    TesterMethod(tag)
        \cup (MethodsFor(SubSeq(tag, 2, 4)) \cap {"read_EMdgmCZ0", "read_EMdgmCZ1"})

\* C5: for every identifier of the known set, decode_datagram on a datagram
\* with that tag selects exactly one read method, the decoder of the type,
\* and the decoder reads the datagram without error.
C5_KnownTagsDispatch ==
    /\ (op = "decode" /\ pos = P0 /\ OnDatagram(KnownTags))
       => (err = "" /\ read_method \in DecoderOf(TagAt(file, P0)))
    /\ (op \in {"read", "tester_read"} /\ OnDatagram(KnownTags) /\ read_method # "None")
       => err = ""

\* ------------------------------------------------------------------------
\* The sub-struct decoders called on their own: specification SpecSub
\* ------------------------------------------------------------------------

\* the sizes of the known fields of the sub-structs that declare their size
KnownSizes ==
    { MbodySize, PingInfoSizeA + PingInfoSizeB, RxInfoSize, MWCtxInfoSize,
      MWCrxInfoSize, ScommonSize, SKMinfoSize, SVTinfoSize }

\* a sub-struct that declares S bytes, of which n are in the file, after
\* pre bytes
SubFile(pre, S, n) == Zeros(pre) \o U16le(S) \o Zeros(n - 2)

\* where in the file the sub-struct starts
SubStarts == {0, 3}

SubFiles(pre) ==
    { SubFile(pre, S, n) :
        S \in UNION { (K - MaxExtra)..(K + MaxExtra) : K \in KnownSizes },
        n \in UNION { {K - 1, K, K + MaxExtra} : K \in KnownSizes } }

\* the file is open, the cursor where the sub-struct starts
InitSub ==
    /\ \E pre \in SubStarts :
          /\ pos = pre
          /\ file \in SubFiles(pre)
    /\ file_size = NoSize
    /\ eof = FALSE
    /\ datagram_ident = << >>
    /\ read_method = "None"
    /\ datagram_data = NoData
    /\ err = ""
    /\ op = "init"
    /\ P0 = 0
    /\ FID = "open"
    /\ out = << >>
    /\ arg = NoData
    /\ result = NoData

\* one call of a sub-struct decoder, r the reader state it ends in
SubCall(name, r) ==
    /\ op = "init"
    /\ pos' = r.pos
    /\ err' = r.err
    /\ P0' = pos
    /\ op' = name
    /\ UNCHANGED <<arg, result, file, file_size, eof, datagram_ident, read_method, datagram_data,
                   FID, out>>

call_read_EMdgmMbody ==
    SubCall("read_EMdgmMbody", read_EMdgmMbody(file, Rd(pos)))

call_read_EMdgmMRZ_pingInfo ==
    SubCall("read_EMdgmMRZ_pingInfo", read_EMdgmMRZ_pingInfo(file, Rd(pos)))

call_read_EMdgmMRZ_rxInfo ==
    SubCall("read_EMdgmMRZ_rxInfo", read_EMdgmMRZ_rxInfo(file, Rd(pos)))

call_read_EMdgmMWCtxInfo ==
    SubCall("read_EMdgmMWCtxInfo", read_EMdgmMWCtxInfo(file, Rd(pos)))

call_read_EMdgmMWCrxInfo ==
    SubCall("read_EMdgmMWCrxInfo", read_EMdgmMWCrxInfo(file, Rd(pos)))

call_read_EMdgmScommon ==
    SubCall("read_EMdgmScommon", read_EMdgmScommon(file, Rd(pos)))

call_read_EMdgmSKMinfo ==
    SubCall("read_EMdgmSKMinfo", read_EMdgmSKMinfo(file, Rd(pos)))

call_read_EMdgmSVTinfo ==
    SubCall("read_EMdgmSVTinfo", read_EMdgmSVTinfo(file, Rd(pos)))

NextSub ==
    \/ call_read_EMdgmMbody
    \/ call_read_EMdgmMRZ_pingInfo
    \/ call_read_EMdgmMRZ_rxInfo
    \/ call_read_EMdgmMWCtxInfo
    \/ call_read_EMdgmMWCrxInfo
    \/ call_read_EMdgmScommon
    \/ call_read_EMdgmSKMinfo
    \/ call_read_EMdgmSVTinfo

SpecSub == InitSub /\ [][NextSub]_vars

\* the size K of the known fields of the sub-struct a decoder reads
KnownSize(name) ==
    CASE name = "read_EMdgmMbody" -> MbodySize
      [] name = "read_EMdgmMRZ_pingInfo" -> PingInfoSizeA + PingInfoSizeB
      [] name = "read_EMdgmMRZ_rxInfo" -> RxInfoSize
      [] name = "read_EMdgmMWCtxInfo" -> MWCtxInfoSize
      [] name = "read_EMdgmMWCrxInfo" -> MWCrxInfoSize
      [] name = "read_EMdgmScommon" -> ScommonSize
      [] name = "read_EMdgmSKMinfo" -> SKMinfoSize
      [] name = "read_EMdgmSVTinfo" -> SVTinfoSize

\* a sub-struct decoder was called with its K known bytes in the file
SubDecoded == op \notin {"init"} /\ P0 + KnownSize(op) <= Len(file)

\* C6: a sub-struct decoder called on a sub-struct whose declared size S is
\* at least the size K of its known fields leaves the cursor exactly S
\* bytes after the start of the sub-struct.
C6_DeclaredSizeConsumed ==
    (SubDecoded /\ u16(file, P0) >= KnownSize(op))
    => (err = "" /\ pos = P0 + u16(file, P0))

\* C6 happens: pingInfo has skipped unknown bytes after its known fields
C6_Witness ==
    /\ op = "read_EMdgmMRZ_pingInfo"
    /\ SubDecoded
    /\ u16(file, P0) > KnownSize(op)
    /\ pos = P0 + u16(file, P0)

\* C7: a sub-struct decoder called on a sub-struct whose declared size is
\* smaller than its known fields raises an error; the cursor does not end
\* before the end of the known fields.
C7_UndersizeIsAnError ==
    (SubDecoded /\ u16(file, P0) < KnownSize(op))
    => (err # "" /\ pos >= P0 + KnownSize(op))

\* ------------------------------------------------------------------------
\* Writing an #MRZ record back: write_EMdgmMRZ
\* ------------------------------------------------------------------------

\* struct.pack("h", v)
S16le(v) == U16le(v % 65536)

\* write_EMdgmHeader: dg_seconds = int(dgtime) and
\* dg_nanoseconds = int((dgtime - dg_seconds) * 1e9), the float fraction
\* ticks * 2^-22 s truncated to whole nanoseconds
write_EMdgmHeader(h) ==
    U32le(h.numBytesDgm) \o h.dgmType \o U8le(h.dgmVersion) \o U8le(h.systemID)
        \o U16le(h.echoSounderID) \o U32le(h.dgtime.sec)
        \o U32le((h.dgtime.ticks * 1953125) \div 8192)

write_EMdgmMpartition(d) == U16le(d.numOfDgms) \o U16le(d.dgmNum)

write_EMdgmMbody(d) == U16le(d.numBytesCmnPart) \o d.fields

write_EMdgmMRZ_pingInfo(d) ==
    U16le(d.numBytesInfoData) \o d.fieldsA \o U16le(d.numTxSectors)
        \o U16le(d.numBytesPerTxSector) \o d.fieldsB

write_EMdgmMRZ_txSectorInfo(d, sector) ==
    U8le(d.txSectorNumb[sector]) \o d.fields[sector]

write_EMdgmMRZ_rxInfo(d) ==
    U16le(d.numBytesRxInfo) \o U16le(d.numSoundingsMaxMain)
        \o U16le(d.numSoundingsValidMain) \o U16le(d.numBytesPerSounding)
        \o d.fields \o U16le(d.extraDetectionAlarmFlag)
        \o U16le(d.numExtraDetections) \o U16le(d.numExtraDetectionClasses)
        \o U16le(d.numBytesPerClass)

write_EMdgmMRZ_sounding(d, record) ==
    U16le(d.soundingIndex[record]) \o d.fields[record] \o U16le(d.SInumSamples[record])

\* write_EMdgmMRZ_seabedImagery: struct.pack(str(N) + "h", *SIsample_desidB)
\* takes exactly N values
RECURSIVE PackSamples(_, _)
PackSamples(v, i) ==
    IF i > Len(v) THEN << >> ELSE S16le(v[i]) \o PackSamples(v, i + 1)

write_EMdgmMRZ_seabedImagery(dg, N) ==
    IF Len(dg.SIsample_desidB) = N
    THEN [out |-> PackSamples(dg.SIsample_desidB, 1), err |-> ""]
    ELSE [out |-> << >>, err |-> "struct.error"]

\* the bytes of the calls i..n of a loop, written[k] being what call k writes
RECURSIVE WriteEach(_, _, _)
WriteEach(written, i, n) ==
    IF i > n THEN << >> ELSE written[i] \o WriteEach(written, i + 1, n)

\* Nseabedimage_samples: the sum of the first n entries of SInumSamples
RECURSIVE SumFirst(_, _)
SumFirst(v, n) == IF n <= 0 THEN 0 ELSE v[n] + SumFirst(v, n - 1)

\* write_EMdgmMRZ(dg): the bytes written and the exception raised.  The
\* loop over the extra-detection classes passes the undefined name FID to
\* write_EMdgmMRZ_extraDetClassInfo: NameError on its first iteration.
write_EMdgmMRZ(dg) ==
    LET h == [dg.header EXCEPT !.dgmType = Tag("M", "R", "Z")]
        nSnd == dg.rxInfo.numExtraDetections + dg.rxInfo.numSoundingsMaxMain
        N == SumFirst(dg.sounding.SInumSamples, nSnd)
        b1 == write_EMdgmHeader(h) \o write_EMdgmMpartition(dg.partition)
                \o write_EMdgmMbody(dg.cmnPart)
                \o write_EMdgmMRZ_pingInfo(dg.pingInfo)
                \o WriteEach([k \in 1..dg.pingInfo.numTxSectors |->
                                write_EMdgmMRZ_txSectorInfo(dg.txSectorInfo, k)],
                             1, dg.pingInfo.numTxSectors)
                \o write_EMdgmMRZ_rxInfo(dg.rxInfo)
        b2 == b1 \o WriteEach([k \in 1..nSnd |->
                                  write_EMdgmMRZ_sounding(dg.sounding, k)],
                              1, nSnd)
        im == IF N > 0 THEN write_EMdgmMRZ_seabedImagery(dg, N)
              ELSE [out |-> << >>, err |-> ""]
    IN  IF dg.rxInfo.numExtraDetectionClasses > 0
        THEN [out |-> b1, err |-> "NameError"]
        ELSE IF im.err # "" THEN [out |-> b2, err |-> im.err]
        ELSE [out |-> b2 \o im.out \o U32le(dg.header.numBytesDgm), err |-> ""]

\* ------------------------------------------------------------------------
\* Reading, writing and reading back #MRZ: specification SpecMRZ
\* ------------------------------------------------------------------------

\* time_nanosec of the datagrams
Nanosecs == {0, 500}

\* files of one #MRZ datagram
MRZFiles ==
    { Frame(Tag("M","R","Z"), MRZbody(nTx, nCls, nMain, nExtra, si, e), ns) :
        nTx \in 0..MaxCount, nCls \in 0..MaxCount, nMain \in 0..MaxCount,
        nExtra \in 0..1, si \in 0..MaxCount, e \in 0..MaxExtra, ns \in Nanosecs }

\* the file is open for reading, the cursor on the datagram
InitMRZ ==
    /\ file \in MRZFiles
    /\ pos = 0
    /\ file_size = NoSize
    /\ eof = FALSE
    /\ datagram_ident = << >>
    /\ read_method = "None"
    /\ datagram_data = NoData
    /\ err = ""
    /\ op = "init"
    /\ P0 = 0
    /\ FID = "open"
    /\ out = << >>
    /\ arg = NoData
    /\ result = NoData

\* dg = K.read_EMdgmMRZ() with the cursor on the datagram
ReadMRZ ==
    /\ op = "init"
    /\ LET r == read_EMdgmMRZ(file, pos)
       IN  /\ pos' = r.pos
           /\ err' = r.err
           /\ datagram_data' = IF r.err = "" THEN MRZrec(file, pos) ELSE datagram_data
    /\ P0' = pos
    /\ op' = "read_EMdgmMRZ"
    /\ UNCHANGED <<arg, result, file, file_size, eof, datagram_ident, read_method, FID, out>>

\* T.write_EMdgmMRZ(dg) on an instance T opened for writing
WriteMRZ ==
    /\ op \in {"read_EMdgmMRZ", "reread"}
    /\ err = ""
    /\ LET w == write_EMdgmMRZ(datagram_data)
       IN  /\ out' = w.out
           /\ err' = w.err
    /\ op' = "write_EMdgmMRZ"
    /\ UNCHANGED <<arg, result, file, pos, file_size, eof, datagram_ident, read_method,
                   datagram_data, P0, FID>>

\* the written file is opened and read_EMdgmMRZ called at its start
RereadMRZ ==
    /\ op = "write_EMdgmMRZ"
    /\ err = ""
    /\ file' = out
    /\ LET r == read_EMdgmMRZ(out, 0)
       IN  /\ pos' = r.pos
           /\ err' = r.err
           /\ datagram_data' = IF r.err = "" THEN MRZrec(out, 0) ELSE datagram_data
    /\ P0' = 0
    /\ op' = "reread"
    /\ UNCHANGED <<arg, result, file_size, eof, datagram_ident, read_method, FID, out>>

NextMRZ ==
    \/ ReadMRZ
    \/ WriteMRZ
    \/ RereadMRZ

SpecMRZ == InitMRZ /\ [][NextMRZ]_vars

\* ------------------------------------------------------------------------
\* Properties of #MRZ records (SpecMRZ)
\* ------------------------------------------------------------------------

\* a dictionary of lists holds n entries under every key (None holds none)
EntriesAre(d, n) ==
    IF "kind" \in DOMAIN d THEN n = 0 ELSE \A k \in DOMAIN d : Len(d[k]) = n

\* read_EMdgmMRZ has returned a record
MRZread == op \in {"read_EMdgmMRZ", "reread"} /\ err = ""

\* C8: every record read_EMdgmMRZ returns holds numSoundingsMaxMain +
\* numExtraDetections soundings, numTxSectors sector entries,
\* numExtraDetectionClasses class entries, and as many imagery samples in
\* SIsample_desidB as the SInumSamples of its soundings add up to.
C8_MRZCountsAgree ==
    MRZread =>
        LET d == datagram_data
            nSnd == d.rxInfo.numSoundingsMaxMain + d.rxInfo.numExtraDetections
        IN  /\ EntriesAre(d.sounding, nSnd)
            /\ EntriesAre(d.txSectorInfo, d.pingInfo.numTxSectors)
            /\ EntriesAre(d.extraDetClassInfo, d.rxInfo.numExtraDetectionClasses)
            /\ Len(d.SIsample_desidB) =
                   (IF nSnd = 0 THEN 0 ELSE SumFirst(d.sounding.SInumSamples, nSnd))

\* C8 happens: a record with sectors, classes, several soundings and
\* imagery samples has been read
C8_Witness ==
    /\ MRZread
    /\ datagram_data.pingInfo.numTxSectors > 0
    /\ datagram_data.rxInfo.numExtraDetectionClasses > 0
    /\ datagram_data.rxInfo.numSoundingsMaxMain > 1
    /\ datagram_data.rxInfo.numExtraDetections > 0
    /\ Len(datagram_data.SIsample_desidB) > 2

\* the #MRZ datagram at the start of f has no unknown trailing bytes: each
\* sized part declares just its known fields and the datagram ends with the
\* imagery and the closing length
NoUnknownBytes(f) ==
    LET m == MRZparts(f, 0)
    IN  /\ m.last.err = ""
        /\ m.last.pos + LenFieldSize = u32(f, 0)
        /\ u16(f, m.cmn) = MbodySize
        /\ u16(f, m.ping) = PingInfoSizeA + PingInfoSizeB
        /\ u16(f, m.rx) = RxInfoSize

\* C9: for a record decoded from an #MRZ datagram without unknown trailing
\* bytes, whatever its numbers of sectors, classes, soundings and samples,
\* write_EMdgmMRZ succeeds and read_EMdgmMRZ on the written bytes succeeds
\* and returns a record equal to the original.
C9_MRZRoundTrip ==
    (op = "write_EMdgmMRZ" /\ NoUnknownBytes(file))
    => /\ err = ""
       /\ read_EMdgmMRZ(out, 0).err = ""
       /\ MRZrec(out, 0) = datagram_data

\* C10: the length write_EMdgmMRZ writes in the header and repeats in the
\* closing word is the number of bytes it has written for the datagram.
C10_WrittenLengthIsTrue ==
    (op = "write_EMdgmMRZ" /\ err = "")
    => /\ u32(out, 0) = Len(out)
       /\ u32(out, Len(out) - LenFieldSize) = Len(out)

\* ------------------------------------------------------------------------
\* Arithmetic of the compression codec.  The scaled values reach 2^32 - 1,
\* so wide numbers are little-endian sequences of six base-256 digits; the
\* floats of the codec are exact here: the inputs of the model are small
\* integers, for which the double arithmetic of the code is exact up to
\* the truncations and roundings written out below.
\* ------------------------------------------------------------------------

\* the six digits of n >= 0
RECURSIVE BigDigits(_, _)
BigDigits(n, k) == IF k = 0 THEN << >> ELSE << n % 256 >> \o BigDigits(n \div 256, k - 1)

Big(n) == BigDigits(n, 6)

\* x * m + carry for a small m >= 0
RECURSIVE BigMulC(_, _, _)
BigMulC(x, m, carry) ==
    IF x = << >> THEN << >>
    ELSE << (Head(x) * m + carry) % 256 >>
            \o BigMulC(Tail(x), m, (Head(x) * m + carry) \div 256)

BigMul(x, m) == BigMulC(x, m, 0)

\* x + y + carry
RECURSIVE BigAddC(_, _, _)
BigAddC(x, y, carry) ==
    IF x = << >> THEN << >>
    ELSE << (Head(x) + Head(y) + carry) % 256 >>
            \o BigAddC(Tail(x), Tail(y), (Head(x) + Head(y) + carry) \div 256)

BigAdd(x, y) == BigAddC(x, y, 0)

\* x - y - borrow, for x >= y
RECURSIVE BigSubC(_, _, _)
BigSubC(x, y, borrow) ==
    IF x = << >> THEN << >>
    ELSE << (Head(x) - Head(y) - borrow + 256) % 256 >>
            \o BigSubC(Tail(x), Tail(y),
                       IF Head(x) - Head(y) - borrow < 0 THEN 1 ELSE 0)

BigSub(x, y) == BigSubC(x, y, 0)

\* x < y
RECURSIVE BigLess(_, _)
BigLess(x, y) ==
    IF x = << >> THEN FALSE
    ELSE IF x[Len(x)] # y[Len(y)] THEN x[Len(x)] < y[Len(y)]
    ELSE BigLess(SubSeq(x, 1, Len(x) - 1), SubSeq(y, 1, Len(y) - 1))

\* floor(x / r) for a small r > 0, rem the remainder carried down from the
\* higher digits
RECURSIVE BigDivR(_, _, _)
BigDivR(x, r, rem) ==
    IF x = << >> THEN << >>
    ELSE BigDivR(SubSeq(x, 1, Len(x) - 1), r, (rem * 256 + x[Len(x)]) % r)
            \o << (rem * 256 + x[Len(x)]) \div r >>

BigDiv(x, r) == BigDivR(x, r, 0)

\* 255.0, 65535.0, 4294967295.0: the largest code of a width
Levels(bits) == [i \in 1..6 |-> IF 8 * i <= bits THEN 255 ELSE 0]

\* floor(log2(a)) for a >= 1
RECURSIVE Log2(_)
Log2(a) == IF a < 2 THEN 0 ELSE 1 + Log2(a \div 2)

\* struct.pack('f', v) for an integer v, |v| < 2^24: sign, biased exponent
\* and 23 mantissa bits, little-endian
F32le(v) ==
    LET a == IF v < 0 THEN -v ELSE v
        e == Log2(a)
        mant == (a - 2^e) * 2^(23 - e)
        E == e + 127
    IN  IF v = 0 THEN << 0, 0, 0, 0 >>
        ELSE << mant % 256, (mant \div 256) % 256,
                (mant \div 65536) + 128 * (E % 2),
                (E \div 2) + (IF v < 0 THEN 128 ELSE 0) >>

\* struct.unpack('f', b) for the bytes of the float of an integer
F32(b) ==
    LET E == (b[4] % 128) * 2 + (b[3] \div 128)
        mant == (b[3] % 128) * 65536 + b[2] * 256 + b[1]
        a == IF E = 0 THEN 0 ELSE (8388608 + mant) \div 2^(150 - E)
    IN  IF b[4] >= 128 THEN -a ELSE a

\* struct.pack('i', v)
S32le(v) == IF v >= 0 THEN U32le(v) ELSE [i \in 1..4 |-> 255 - U32le(-v - 1)[i]]

\* struct.unpack('i', ...) of the four bytes at 0-based offset o, for
\* |value| < 2^24
s32(f, o) ==
    IF f[o + 4] >= 128 THEN -(1 + (255 - f[o + 1]) + 256 * (255 - f[o + 2])
                                + 65536 * (255 - f[o + 3]))
    ELSE u32(f, o)

\* A float of the decoder: int + frac / levels with 0 <= frac < levels (a
\* wide number), levels that of the width bits
Real(int, frac, bits) == [int |-> int, frac |-> frac, bits |-> bits]

\* a + b, a or b of width bits
RealAdd(a, b, bits) ==
    LET s == BigAdd(a.frac, b.frac)
    IN  IF BigLess(s, Levels(bits)) \/ bits = 0
        THEN Real(a.int + b.int, s, bits)
        ELSE Real(a.int + b.int + 1, BigSub(s, Levels(bits)), bits)

\* float(x) * (maxv - minv) / levels + minv for the code x (a wide number)
\* and r = maxv - minv >= 0
Scaled(x, r, minv, bits) ==
    LET xr == BigMul(x, r)
        t == CHOOSE t \in 0..r :
                /\ ~BigLess(xr, BigMul(Levels(bits), t))
                /\ BigLess(xr, BigMul(Levels(bits), t + 1))
    IN  Real(minv + t, BigSub(xr, BigMul(Levels(bits), t)), bits)

\* ------------------------------------------------------------------------
\* The delta codec: encodeArrayIntoUintX and decodeUintXintoArray.  A is a
\* sequence of integers and res the fraction res[1] / res[2].
\* ------------------------------------------------------------------------

\* np.diff(A)
Diff(A) == [i \in 1..(Len(A) - 1) |-> A[i + 1] - A[i]]

\* np.max and np.min of a non-empty array
SeqMax(A) == CHOOSE m \in {A[i] : i \in 1..Len(A)} : \A i \in 1..Len(A) : A[i] <= m

SeqMin(A) == CHOOSE m \in {A[i] : i \in 1..Len(A)} : \A i \in 1..Len(A) : m <= A[i]

\* maxv - minv of an array
Range(A) == SeqMax(A) - SeqMin(A)

\* the differences are encoded unless the values span less than they do
differentialEncode(A) == ~(Range(A) < Range(Diff(A)))

valuesToEncode(A) == IF differentialEncode(A) THEN Diff(A) ELSE Tail(A)

\* minv and maxv: of the differences, or of the whole array when its values
\* are encoded
minvOf(A) == IF differentialEncode(A) THEN SeqMin(Diff(A)) ELSE SeqMin(A)

maxvOf(A) == IF differentialEncode(A) THEN SeqMax(Diff(A)) ELSE SeqMax(A)

bitsFor_orEqual(r, res) ==
    IF r * res[2] <= 255 * res[1] THEN 8
    ELSE IF r * res[2] <= 65535 * res[1] THEN 16
    ELSE 32

\* the width chosen for the range r = maxv - minv and the resolution res
bitsFor(r, res) ==
    IF r * res[2] < 255 * res[1] THEN 8
    ELSE IF r * res[2] < 65535 * res[1] THEN 16
    ELSE 32

\* ((v - minv) * scaleFactor).astype(int) packed in bits / 8 bytes, r the
\* range of the encoded values
Code(v, minv, r, bits) ==
    IF r = 0 THEN SubSeq(Big(v - minv), 1, bits \div 8)
    ELSE SubSeq(BigDiv(BigMul(Levels(bits), v - minv), r), 1, bits \div 8)

RECURSIVE Codes(_, _, _, _)
Codes(V, minv, r, bits) ==
    IF V = << >> THEN << >>
    ELSE Code(Head(V), minv, r, bits) \o Codes(Tail(V), minv, r, bits)

\* the buffer of the values V of A under the width bits
EncodedBuffer(A, V, bits) ==
    F32le(A[1]) \o F32le(minvOf(A)) \o F32le(maxvOf(A))
        \o S32le(IF differentialEncode(A) THEN -Len(V) ELSE Len(V))
        \o << bits >> \o Codes(V, minvOf(A), maxvOf(A) - minvOf(A), bits)

\* encodeArrayIntoUintX(A, res): np.max of the empty array of differences
\* raises ValueError
encodeArrayIntoUintX(A, res) ==
    IF Len(A) < 2 THEN [buffer |-> << >>, err |-> "ValueError"]
    ELSE [buffer |-> EncodedBuffer(A, valuesToEncode(A),
                                   bitsFor(maxvOf(A) - minvOf(A), res)),
          err |-> ""]

\* the code of bits / 8 bytes at 0-based offset o as a wide number
CodeAt(b, o, bits) == [i \in 1..6 |-> IF 8 * i <= bits THEN b[o + i] ELSE 0]

\* [A0] + list(dA * (maxv - minv) / levels + minv)
Rescaled(b, A0, minv, maxv, N, bits) ==
    << Real(A0, Big(0), bits) >>
        \o [i \in 1..N |-> Scaled(CodeAt(b, 17 + (i - 1) * (bits \div 8), bits),
                                  maxv - minv, minv, bits)]

\* np.cumsum
RECURSIVE cumsum(_, _, _)
cumsum(R, n, bits) ==
    IF n = 1 THEN R[1] ELSE RealAdd(cumsum(R, n - 1, bits), R[n], bits)

\* decodeUintXintoArray(buffer): the floats and the bytes decoded
decodeUintXintoArray(b) ==
    IF Len(b) < 17 THEN [orig |-> << >>, bytesDecoded |-> 0, err |-> "struct.error"]
    ELSE LET cnt == s32(b, 12)
             N == IF cnt < 0 THEN -cnt ELSE cnt
             bits == b[17]
             R == Rescaled(b, F32(SubSeq(b, 1, 4)), F32(SubSeq(b, 5, 8)),
                           F32(SubSeq(b, 9, 12)), N, bits)
         IN  IF bits \notin {8, 16, 32}
             THEN [orig |-> << >>, bytesDecoded |-> 0, err |-> "UnboundLocalError"]
             ELSE IF Len(b) < 17 + N * (bits \div 8)
             THEN [orig |-> << >>, bytesDecoded |-> 0, err |-> "struct.error"]
             ELSE [orig |-> IF cnt < 0 THEN [i \in 1..(N + 1) |-> cumsum(R, i, bits)]
                            ELSE R,
                   bytesDecoded |-> 17 + N * (bits \div 8),
                   err |-> ""]

\* ------------------------------------------------------------------------
\* The soundings table of the compressed datagrams:
\* encodeAndCompressSoundings and expandAndDecodeSoundings.  dg is
\* dg['sounding'], one list per field; the floats are whole numbers.
\* ------------------------------------------------------------------------

\* the fields given to encodeArrayIntoUintX with their resolutions, in the
\* order of the buffer: before WCBeamNumb, before the sector values, after
Column(name, res) == [name |-> name, res |-> res]

FloatsA ==
    << Column("rangeFactor", <<1, 1>>), Column("qualityFactor", <<1, 100>>),
       Column("detectionUncertaintyVer_m", <<1, 100>>),
       Column("detectionUncertaintyHor_m", <<1, 10>>),
       Column("detectionWindowLength_sec", <<1, 1000>>),
       Column("echoLength_sec", <<1, 1000>>) >>

FloatsB == << Column("WCNomBeamAngleAcross_deg", <<1, 1000>>) >>

FloatsC ==
    << Column("reflectivity1_dB", <<1, 10>>), Column("reflectivity2_dB", <<1, 1000>>),
       Column("receiverSensitivityApplied_dB", <<1, 1000>>),
       Column("sourceLevelApplied_dB", <<1, 1000>>),
       Column("BScalibration_dB", <<1, 1000>>), Column("TVG_dB", <<1, 1000>>),
       Column("beamAngleReRx_deg", <<1, 1000>>),
       Column("beamAngleCorrection_deg", <<1, 1000>>),
       Column("twoWayTravelTime_sec", <<1, 1000000>>),
       Column("twoWayTravelTimeCorrection_sec", <<1, 10000000>>),
       Column("deltaLatitude_deg", <<1, 10000000>>),
       Column("deltaLongitude_deg", <<1, 10000000>>),
       Column("z_reRefPoint_m", <<1, 1000>>), Column("y_reRefPoint_m", <<1, 1000>>),
       Column("x_reRefPoint_m", <<1, 1000>>),
       Column("beamIncAngleAdj_deg", <<1, 1000>>) >>

\* struct.pack(str(n) + "B", *col) and struct.pack(str(n) + "H", *col)
RECURSIVE PackB(_)
PackB(col) == IF col = << >> THEN << >> ELSE << Head(col) >> \o PackB(Tail(col))

RECURSIVE PackH(_)
PackH(col) == IF col = << >> THEN << >> ELSE U16le(Head(col)) \o PackH(Tail(col))

\* struct.unpack(str(n) + "B", ...) and struct.unpack(str(n) + "H", ...) at
\* 0-based offset o
UnpackB(b, o, n) == [i \in 1..n |-> u8(b, o + i - 1)]

UnpackH(b, o, n) == [i \in 1..n |-> u16(b, o + 2 * (i - 1))]

\* detectionType * 100. + detectionMethod * 10. + txSectorNumb, one per
\* sounding
PackedTriple(dg) ==
    [i \in 1..Len(dg.soundingIndex) |->
        dg.detectionType[i] * 100 + dg.detectionMethod[i] * 10 + dg.txSectorNumb[i]]

\* the three fields np.round takes out of the packed byte tmp
UnpackedTriple(tmp) ==
    LET type == RoundDiv(tmp, 100)
        method == RoundDiv(tmp - type * 100, 10)
    IN  [detectionType |-> type, detectionMethod |-> method,
         txSectorNumb |-> tmp - type * 100 - method * 10]

\* np.unique(col): the values in increasing order
RECURSIVE Sorted(_)
Sorted(S) ==
    IF S = {} THEN << >>
    ELSE LET m == CHOOSE x \in S : \A y \in S : x <= y
         IN  << m >> \o Sorted(S \ {m})

unique(col) == Sorted({col[i] : i \in 1..Len(col)})

\* np.sort(idx) of np.unique(col, return_index=True): the places where a
\* value occurs for the first time, in increasing order
FirstPlaces(col) ==
    Sorted({i \in 1..Len(col) : \A j \in 1..(i - 1) : col[j] # col[i]})

\* np.round(meanAbsCoeff_dbPerkm[np.sort(idx)] * 100).astype(int)
SectorValues(dg) ==
    LET at == FirstPlaces(dg.txSectorNumb)
    IN  [k \in 1..Len(at) |-> dg.meanAbsCoeff_dbPerkm[at[k]] * 100]

\* the soundings of the valid detects
ValidDetects(dg) ==
    {i \in 1..Len(dg.detectionMethod) : dg.detectionMethod[i] # 0}

\* stats.mode(...)[0][0]: the most frequent value of the valid detects, the
\* smallest of them when several are
reflectivity_mode(dg, name) ==
    LET v == ValidDetects(dg)
        count(x) == Cardinality({i \in v : dg[name][i] = x})
    IN  CHOOSE x \in {dg[name][i] : i \in v} :
            \A i \in v : \/ count(dg[name][i]) < count(x)
                         \/ count(dg[name][i]) = count(x) /\ x <= dg[name][i]

\* the non-detects replaced by the mode (whole values are their own
\* np.round(..., decimals=2))
ModeForNonDetects(dg, name) ==
    [i \in 1..Len(dg[name]) |->
        IF dg.detectionMethod[i] # 0 THEN dg[name][i] ELSE reflectivity_mode(dg, name)]

\* dg as it is after the two reflectivity fields were overwritten
WithModes(dg) ==
    [dg EXCEPT !.reflectivity1_dB = ModeForNonDetects(dg, "reflectivity1_dB"),
               !.reflectivity2_dB = ModeForNonDetects(dg, "reflectivity2_dB")]

\* the buffers of the columns cols one after the other
RECURSIVE EncodeColumns(_, _)
EncodeColumns(dg, cols) ==
    IF cols = << >> THEN << >>
    ELSE encodeArrayIntoUintX(dg[Head(cols).name], Head(cols).res).buffer
            \o EncodeColumns(dg, Tail(cols))

\* bz2.compress and bz2.decompress: the stream begins with "BZh9" and is
\* not the data; here the bytes follow the magic complemented
bz2compress(b) == << 66, 90, 104, 57 >> \o [i \in 1..Len(b) |-> 255 - b[i]]

bz2decompress(c) ==
    IF Len(c) < 4 \/ SubSeq(c, 1, 4) # << 66, 90, 104, 57 >>
    THEN [data |-> << >>, err |-> "OSError"]
    ELSE [data |-> [i \in 1..(Len(c) - 4) |-> 255 - c[i + 4]], err |-> ""]

\* the uncompressed buffer of a table of two soundings or more with a
\* valid detect
SoundingsBuffer(dg, m) ==
    PackH(dg.soundingIndex) \o PackB(PackedTriple(dg))
        \o PackB(dg.rejectionInfo1) \o PackB(dg.rejectionInfo2)
        \o PackB(dg.postProcessingInfo) \o PackB(dg.detectionClass)
        \o PackB(dg.detectionConfidenceLevel)
        \o EncodeColumns(dg, FloatsA)
        \o PackH(dg.WCBeamNumb) \o PackH(dg.WCrange_samples)
        \o EncodeColumns(dg, FloatsB)
        \o PackH(SectorValues(dg))
        \o EncodeColumns(m, FloatsC)
        \o PackH(dg.SIstartRange_samples) \o PackH(dg.SIcentreSample)
        \o PackH(dg.SInumSamples)

\* encodeAndCompressSoundings(dg): struct.pack refuses a packed byte above
\* 255, np.max the differences of fewer than two soundings, and the mode of
\* no valid detect has no first element
encodeAndCompressSoundings(dg) ==
    IF \E i \in 1..Len(dg.soundingIndex) : PackedTriple(dg)[i] \notin 0..255
    THEN [buffer |-> << >>, err |-> "struct.error"]
    ELSE IF Len(dg.soundingIndex) < 2
    THEN [buffer |-> << >>, err |-> "ValueError"]
    ELSE IF ValidDetects(dg) = {}
    THEN [buffer |-> << >>, err |-> "IndexError"]
    ELSE [buffer |-> bz2compress(SoundingsBuffer(dg, WithModes(dg))), err |-> ""]


\* the columns cols decoded one after the other from 0-based offset ptr
RECURSIVE DecodeColumns(_, _, _)
DecodeColumns(b, ptr, cols) ==
    IF cols = << >> THEN [dg |-> << >>, ptr |-> ptr, err |-> ""]
    ELSE LET d == decodeUintXintoArray(SubSeq(b, ptr + 1, Len(b)))
         IN  IF d.err # "" THEN [dg |-> << >>, ptr |-> ptr, err |-> d.err]
             ELSE LET rest == DecodeColumns(b, ptr + d.bytesDecoded, Tail(cols))
                  IN  [dg |-> (Head(cols).name :> d.orig) @@ rest.dg,
                       ptr |-> rest.ptr, err |-> rest.err]

\* values[k] of a numpy array: counted from the end for a negative k
Indexed(values, k) ==
    IF k >= 0 /\ k < Len(values) THEN [value |-> values[k + 1], err |-> ""]
    ELSE IF k < 0 /\ -k <= Len(values)
    THEN [value |-> values[Len(values) + k + 1], err |-> ""]
    ELSE [value |-> 0, err |-> "IndexError"]

\* a value of values / 100.0
Hundredths(v) == [int |-> v \div 100, hundredths |-> v % 100]

\* -100., the reflectivity of a sounding decoded as a non-detect
Sentinel == Real(-100, Big(0), 0)

NonDetectsReset(method, col) ==
    [i \in 1..Len(col) |-> IF method[i] = 0 THEN Sentinel ELSE col[i]]

\* the fields unpacked as integers from the head of the buffer
SndHead(b, n) ==
    LET t == [i \in 1..n |-> UnpackedTriple(u8(b, 2 * n + i - 1))]
    IN  [soundingIndex |-> UnpackH(b, 0, n),
         detectionType |-> [i \in 1..n |-> t[i].detectionType],
         detectionMethod |-> [i \in 1..n |-> t[i].detectionMethod],
         txSectorNumb |-> [i \in 1..n |-> t[i].txSectorNumb],
         rejectionInfo1 |-> UnpackB(b, 3 * n, n),
         rejectionInfo2 |-> UnpackB(b, 4 * n, n),
         postProcessingInfo |-> UnpackB(b, 5 * n, n),
         detectionClass |-> UnpackB(b, 6 * n, n),
         detectionConfidenceLevel |-> UnpackB(b, 7 * n, n),
         padding |-> [i \in 1..n |-> 0]]

\* the end of the table: the columns c after the sector values, ending at
\* c.ptr, and the three fields after them
SndTail(b, n, h, c) ==
    IF c.err # "" THEN [dg |-> h, err |-> c.err]
    ELSE IF Len(b) < c.ptr + 6 * n THEN [dg |-> h, err |-> "struct.error"]
    ELSE [dg |-> [c.dg EXCEPT
                    !.reflectivity1_dB = NonDetectsReset(h.detectionMethod, @),
                    !.reflectivity2_dB = NonDetectsReset(h.detectionMethod, @)]
                 @@ h
                 @@ [realTimeCleanInfo |-> [i \in 1..n |-> 0],
                     SIstartRange_samples |-> UnpackH(b, c.ptr, n),
                     SIcentreSample |-> UnpackH(b, c.ptr + 2 * n, n),
                     SInumSamples |-> UnpackH(b, c.ptr + 4 * n, n)],
          err |-> ""]

\* the sector values at ptr, one per sector number decoded, given to the
\* soundings by their sector number
SndSectors(b, n, h, ptr) ==
    LET Nsectors == Len(unique(h.txSectorNumb))
        values == UnpackH(b, ptr, Nsectors)
    IN  IF Len(b) < ptr + 2 * Nsectors THEN [dg |-> h, err |-> "struct.error"]
        ELSE IF \E i \in 1..n : Indexed(values, h.txSectorNumb[i]).err # ""
        THEN [dg |-> h, err |-> "IndexError"]
        ELSE SndTail(b, n,
                     h @@ [meanAbsCoeff_dbPerkm |->
                              [i \in 1..n |->
                                  Hundredths(Indexed(values, h.txSectorNumb[i]).value)]],
                     DecodeColumns(b, ptr + 2 * Nsectors, FloatsC))

\* WCBeamNumb and WCrange_samples after the columns a, and the column
\* after them
SndMiddle(b, n, h, a) ==
    IF a.err # "" THEN [dg |-> h, err |-> a.err]
    ELSE IF Len(b) < a.ptr + 4 * n THEN [dg |-> h, err |-> "struct.error"]
    ELSE LET w == DecodeColumns(b, a.ptr + 4 * n, FloatsB)
         IN  IF w.err # "" THEN [dg |-> h, err |-> w.err]
             ELSE SndSectors(b, n,
                             h @@ a.dg @@ w.dg
                               @@ [WCBeamNumb |-> UnpackH(b, a.ptr, n),
                                   WCrange_samples |-> UnpackH(b, a.ptr + 2 * n, n)],
                             w.ptr)

\* expandAndDecodeSoundings(buffer, records)
expandAndDecodeSoundings(buffer, records) ==
    LET d == bz2decompress(buffer)
    IN  IF d.err # "" THEN [dg |-> NoData, err |-> d.err]
        ELSE IF Len(d.data) < 8 * records THEN [dg |-> NoData, err |-> "struct.error"]
        ELSE SndMiddle(d.data, records, SndHead(d.data, records),
                       DecodeColumns(d.data, 8 * records, FloatsA))


\* the longest array and the values and resolutions the codec is given
MaxLen == 3

Values == 0..4

Resolutions == {<<1, 1>>, <<1, 255>>, <<2, 255>>, <<1, 65535>>}

Arrays == UNION {[1..n -> Values] : n \in 1..MaxLen}

InitCodec ==
    /\ file = << >>
    /\ pos = 0
    /\ file_size = NoSize
    /\ eof = FALSE
    /\ datagram_ident = << >>
    /\ read_method = "None"
    /\ datagram_data = NoData
    /\ err = ""
    /\ op = "init"
    /\ P0 = 0
    /\ FID = "None"
    /\ out = << >>
    /\ arg \in [A : Arrays, res : Resolutions]
    /\ result = NoData

\* buffer = K.encodeArrayIntoUintX(A, res)
EncodeArray ==
    /\ op = "init"
    /\ LET e == encodeArrayIntoUintX(arg.A, arg.res)
       IN  /\ err' = e.err
           /\ result' = IF e.err = "" THEN [buffer |-> e.buffer] ELSE result
    /\ op' = "encodeArrayIntoUintX"
    /\ UNCHANGED <<file, pos, file_size, eof, datagram_ident, read_method,
                   datagram_data, P0, FID, out, arg>>

\* (orig, bytesDecoded) = K.decodeUintXintoArray(buffer)
DecodeArray ==
    /\ op = "encodeArrayIntoUintX"
    /\ err = ""
    /\ LET d == decodeUintXintoArray(result.buffer)
       IN  /\ err' = d.err
           /\ result' = IF d.err = ""
                        THEN [orig |-> d.orig, bytesDecoded |-> d.bytesDecoded]
                        ELSE result
    /\ op' = "decodeUintXintoArray"
    /\ UNCHANGED <<file, pos, file_size, eof, datagram_ident, read_method,
                   datagram_data, P0, FID, out, arg>>

NextCodec ==
    \/ EncodeArray
    \/ DecodeArray

SpecCodec == InitCodec /\ [][NextCodec]_vars

\* ------------------------------------------------------------------------
\* Properties of the delta codec (SpecCodec)
\* ------------------------------------------------------------------------

\* encodeArrayIntoUintX has returned a buffer
Encoded == op = "encodeArrayIntoUintX" /\ err = ""

\* the quantity the buffer b of the array A holds: the differences when the
\* count field is negative, the values themselves otherwise
EncodedValues(A, b) == IF s32(b, 12) < 0 THEN Diff(A) ELSE A

\* C13: the width of the codes follows from the resolution: 8 bits when
\* (max - min) / 255 < res, else 16 bits when (max - min) / 65535 < res,
\* else 32 bits, max and min taken over the quantity actually encoded (the
\* differences or the raw values); the codes are packed in that width.
C13_WidthFollowsResolution ==
    Encoded =>
        LET b == result.buffer
            r == Range(EncodedValues(arg.A, b))
            w == IF r * arg.res[2] < 255 * arg.res[1] THEN 8
                 ELSE IF r * arg.res[2] < 65535 * arg.res[1] THEN 16
                 ELSE 32
        IN  /\ b[17] = w
            /\ Len(b) = 17 + (Len(arg.A) - 1) * (w \div 8)

\* an array whose range misses the 8-bit test by equality and is encoded
\* in 16 bits
C13_Witness ==
    /\ Encoded
    /\ result.buffer[17] = 16
    /\ Range(EncodedValues(arg.A, result.buffer)) * arg.res[2] = 255 * arg.res[1]

\* |a - x| <= k * r / levels for the integer a and the decoded float x
ErrWithin(a, x, k, r) ==
    IF a >= x.int
    THEN ~BigLess(BigAdd(Big(k * r), x.frac), BigMul(Levels(x.bits), a - x.int))
    ELSE ~BigLess(Big(k * r), BigAdd(BigMul(Levels(x.bits), x.int - a), x.frac))

\* the decoded array orig is the array A within the bound of its encoding
RoundTripWithin(A, b, orig) ==
    /\ Len(orig) = Len(A)
    /\ orig[1].int = A[1] /\ orig[1].frac = Big(0)
    /\ \A i \in 2..Len(A) :
           ErrWithin(A[i], orig[i], IF s32(b, 12) < 0 THEN i - 1 ELSE 1,
                     Range(EncodedValues(A, b)))

\* C14: every non-empty array is encoded, and decoding the buffer gives an
\* array of the same length with the same first element, element i within
\* (max - min) / levels of the original when the values were encoded and
\* within i * (max - min) / levels when the differences were.
C14_RoundTripWithinResolution ==
    /\ op = "encodeArrayIntoUintX" => err = ""
    /\ op = "decodeUintXintoArray" =>
           /\ err = ""
           /\ RoundTripWithin(arg.A, encodeArrayIntoUintX(arg.A, arg.res).buffer,
                              result.orig)

\* the round trip of the arrays of two elements or more
C14_LongerArrays ==
    Len(arg.A) >= 2 => C14_RoundTripWithinResolution

\* ------------------------------------------------------------------------
\* The compressed datagrams #CZ0 and #CZ1: write_EMdgmCZ0, write_EMdgmCZ1,
\* read_EMdgmCZ0, read_EMdgmCZ1
\* ------------------------------------------------------------------------

\* int(x) of a float: truncation toward zero
RealTrunc(a) == IF a.int < 0 /\ a.frac # Big(0) THEN a.int + 1 ELSE a.int

\* the floats of the columns cols of the soundings snd, the first of them
\* at byte o of the sounding struct
ColumnsAt(snd, cols, o) ==
    [c \in {cols[k].name : k \in 1..Len(cols)} |->
        LET k == CHOOSE k \in 1..Len(cols) : cols[k].name = c
        IN  [i \in 1..Len(snd.fields) |-> F32(Bytes(snd.fields[i], o - 2 + 4 * (k - 1), 4))]]

\* dg['sounding'] field by field, as read_EMdgmMRZ_sounding unpacks it
SoundingColumns(snd) ==
    [k \in {"txSectorNumb", "detectionType", "detectionMethod", "rejectionInfo1",
            "rejectionInfo2", "postProcessingInfo", "detectionClass",
            "detectionConfidenceLevel"} |->
        [i \in 1..Len(snd.fields) |->
            u8(snd.fields[i],
               CASE k = "txSectorNumb" -> 0 [] k = "detectionType" -> 1
                 [] k = "detectionMethod" -> 2 [] k = "rejectionInfo1" -> 3
                 [] k = "rejectionInfo2" -> 4 [] k = "postProcessingInfo" -> 5
                 [] k = "detectionClass" -> 6 [] OTHER -> 7)]]
    @@ [k \in {"padding", "WCBeamNumb", "WCrange_samples", "realTimeCleanInfo",
               "SIstartRange_samples", "SIcentreSample"} |->
        [i \in 1..Len(snd.fields) |->
            u16(snd.fields[i],
                CASE k = "padding" -> 8 [] k = "WCBeamNumb" -> 34
                  [] k = "WCrange_samples" -> 36 [] k = "realTimeCleanInfo" -> 110
                  [] k = "SIstartRange_samples" -> 112 [] OTHER -> 114)]]
    @@ [soundingIndex |-> snd.soundingIndex, SInumSamples |-> snd.SInumSamples]
    @@ ColumnsAt(snd, FloatsA, 12) @@ ColumnsAt(snd, FloatsB, 40)
    @@ [meanAbsCoeff_dbPerkm |->
           [i \in 1..Len(snd.fields) |-> F32(Bytes(snd.fields[i], 42, 4))]]
    @@ ColumnsAt(snd, FloatsC, 48)

\* encodeAndCompressSoundings(dg['sounding']); None has no soundingIndex
EncodedSoundings(snd) ==
    IF "kind" \in DOMAIN snd THEN [buffer |-> << >>, err |-> "TypeError"]
    ELSE encodeAndCompressSoundings(SoundingColumns(snd))

\* dg['sounding'] after encodeAndCompressSoundings returned: the two
\* reflectivity fields hold the mode where the detection is not valid
SoundingsWithModes(snd) ==
    LET m == WithModes(SoundingColumns(snd))
    IN  [snd EXCEPT !.fields =
            [i \in 1..Len(snd.fields) |->
                SubSeq(snd.fields[i], 1, 46) \o F32le(m.reflectivity1_dB[i])
                    \o F32le(m.reflectivity2_dB[i]) \o SubSeq(snd.fields[i], 55, 116)]]

\* encodeAndCompressImagery(dg)
encodeAndCompressImagery(dg) ==
    LET e == encodeArrayIntoUintX(dg.SIsample_desidB, <<1, 10>>)
    IN  IF e.err # "" THEN e ELSE [buffer |-> bz2compress(e.buffer), err |-> ""]

\* write_EMdgmMRZ_extraDetClassInfo
write_EMdgmMRZ_extraDetClassInfo(d, detclass) ==
    U16le(d.numExtraDetInClass[detclass]) \o d.fields[detclass]

\* write_EncodedCompressedSoundings and write_EncodedCompressedImagery
write_EncodedCompressed(buffer) == U32le(Len(buffer)) \o buffer

\* the datagram from its header to the extra detection classes
CZhead(dg) ==
    write_EMdgmHeader(dg.header) \o write_EMdgmMpartition(dg.partition)
        \o write_EMdgmMbody(dg.cmnPart) \o write_EMdgmMRZ_pingInfo(dg.pingInfo)
        \o WriteEach([k \in 1..dg.pingInfo.numTxSectors |->
                        write_EMdgmMRZ_txSectorInfo(dg.txSectorInfo, k)],
                     1, dg.pingInfo.numTxSectors)
        \o write_EMdgmMRZ_rxInfo(dg.rxInfo)
        \o WriteEach([k \in 1..dg.rxInfo.numExtraDetectionClasses |->
                        write_EMdgmMRZ_extraDetClassInfo(dg.extraDetClassInfo, k)],
                     1, dg.rxInfo.numExtraDetectionClasses)

Nsoundings(dg) == dg.rxInfo.numExtraDetections + dg.rxInfo.numSoundingsMaxMain

\* write_EMdgmCZ0 once both buffers exist: dg as the call leaves it and the
\* bytes written
CZ0written(dg, sb, ib) ==
    LET d == [dg EXCEPT
                !.header.numBytesDgm =
                    @ - (Nsoundings(dg) * 120 - (Len(sb) + 4))
                      - (2 * SumFirst(dg.sounding.SInumSamples, Nsoundings(dg))
                           - (Len(ib) + 4)),
                !.sounding = SoundingsWithModes(@)]
    IN  [dg |-> d, err |-> "",
         out |-> CZhead(d) \o write_EncodedCompressed(sb) \o write_EncodedCompressed(ib)
                   \o U32le(d.header.numBytesDgm)]

\* write_EMdgmCZ0 once the imagery is encoded as ib and the soundings as sb
CZ0fromBuffers(d, ib, sb) ==
    IF ib.err # "" THEN [dg |-> d, err |-> ib.err, out |-> << >>]
    ELSE IF sb.err # "" THEN [dg |-> d, err |-> sb.err, out |-> << >>]
    ELSE CZ0written(d, sb.buffer, ib.buffer)

CZ0typed(d) == CZ0fromBuffers(d, encodeAndCompressImagery(d), EncodedSoundings(d.sounding))

\* write_EMdgmCZ0(dg), dg changed in place
write_EMdgmCZ0(dg) == CZ0typed([dg EXCEPT !.header.dgmType = Tag("C", "Z", "0")])

\* write_EMdgmCZ1 once the buffer exists
CZ1written(dg, sb) ==
    LET d == [dg EXCEPT
                !.header.numBytesDgm = @ - (Nsoundings(dg) * 120 - (Len(sb) + 4)),
                !.sounding = SoundingsWithModes(@)]
    IN  [dg |-> d, err |-> "",
         out |-> CZhead(d) \o write_EncodedCompressed(sb) \o U32le(d.header.numBytesDgm)]

\* dg with SInumSamples 0 in its first n soundings
WithoutSamples(snd, n) ==
    IF "kind" \in DOMAIN snd THEN snd
    ELSE [snd EXCEPT !.SInumSamples = [i \in 1..Len(@) |-> IF i <= n THEN 0 ELSE @[i]]]

CZ1fromBuffer(d, sb) ==
    IF sb.err # "" THEN [dg |-> d, err |-> sb.err, out |-> << >>]
    ELSE CZ1written(d, sb.buffer)

CZ1typed(d) == CZ1fromBuffer(d, EncodedSoundings(d.sounding))

\* write_EMdgmCZ1(dg), dg changed in place
write_EMdgmCZ1(dg) ==
    CZ1typed([dg EXCEPT
                !.header.dgmType = Tag("C", "Z", "1"),
                !.header.numBytesDgm =
                    @ - 2 * (IF Nsoundings(dg) = 0 THEN 0
                             ELSE SumFirst(dg.sounding.SInumSamples, Nsoundings(dg))),
                !.sounding = WithoutSamples(@, Nsoundings(dg))])

\* read_EncodedCompressedSoundingsBlock / read_EncodedCompressedImageryBlock
\* from the reader state r: the buffer and the state after it
ReadBlock(f, r) ==
    LET r1 == Fixed(f, r, 4)
        buffer == IF r1.err = "" THEN ReadBytes(f, r1.pos, u32(f, r.pos)) ELSE << >>
    IN  [buffer |-> buffer, rd |-> [r1 EXCEPT !.pos = @ + Len(buffer)]]

\* decodeAndDecompresssImagery(buffer, N)
decodeAndDecompresssImagery(buffer) ==
    LET d == bz2decompress(buffer)
    IN  IF d.err # "" THEN [orig |-> << >>, bytesDecoded |-> 0, err |-> d.err]
        ELSE decodeUintXintoArray(d.data)

\* the dictionary of a compressed datagram at offset p up to its extra
\* detection classes, m its parts and L the length it reports
CZdict(f, p, m, L) ==
    [kind |-> "CZ",
     header |-> [HeaderRec(f, p) EXCEPT !.numBytesDgm = L],
     partition |-> MpartitionRec(f, m.cmn - MpartitionSize),
     cmnPart |-> MbodyRec(f, m.cmn),
     pingInfo |-> MRZ_pingInfoRec(f, m.ping),
     txSectorInfo |-> listofdicts2dictoflists(
         [i \in 1..m.nTx |->
             MRZ_txSectorInfoRec(f, m.sectors + (i - 1) * TxSectorInfoSize)]),
     rxInfo |-> MRZ_rxInfoRec(f, m.rx),
     extraDetClassInfo |-> listofdicts2dictoflists(
         [i \in 1..m.nCls |->
             MRZ_extraDetClassInfoRec(f, m.classes + (i - 1) * ExtraDetClassInfoSize)])]

\* what a reader hands back: the cursor and exception of the reader state
\* r and the dictionary dg
Returns(r, dg) == [pos |-> r.pos, err |-> r.err, dg |-> dg]

Raises(r, e) == [pos |-> r.pos, err |-> e, dg |-> NoData]

\* the end of read_EMdgmCZ0: the length L reported, the seek to p + L
CZ0end(f, p, m, snd, ib, SI, L) ==
    Returns(SeekSet(ib.rd, p + L),
            CZdict(f, p, m, L)
                @@ [sounding |-> snd,
                    SIsample_desidB |-> [i \in 1..Len(SI) |-> RealTrunc(SI[i])]])

\* read_EMdgmCZ0 once the imagery block ib is decoded as im
CZ0fromDecoded(f, p, m, sb, snd, ib, im) ==
    IF im.err # "" THEN Raises(ib.rd, im.err)
    ELSE CZ0end(f, p, m, snd, ib, im.orig,
                u32(f, p) + (m.nSnd * 120 - (Len(sb.buffer) + 4))
                    + (2 * SumFirst(snd.SInumSamples, m.nSnd) - (Len(ib.buffer) + 4)))

\* read_EMdgmCZ0 from the imagery block ib on
CZ0fromImagery(f, p, m, sb, snd, ib) ==
    IF ib.rd.err # "" THEN Raises(ib.rd, ib.rd.err)
    ELSE CZ0fromDecoded(f, p, m, sb, snd, ib, decodeAndDecompresssImagery(ib.buffer))

\* read_EMdgmCZ0 once the soundings block sb is decoded as d
CZ0fromTable(f, p, m, sb, d) ==
    IF d.err # "" THEN Raises(sb.rd, d.err)
    ELSE CZ0fromImagery(f, p, m, sb, d.dg, ReadBlock(f, sb.rd))

\* read_EMdgmCZ0 from the soundings block sb on, m the parts before it
CZ0fromSoundings(f, p, m, sb) ==
    IF m.upto.err # "" THEN Raises(m.upto, m.upto.err)
    ELSE IF sb.rd.err # "" THEN Raises(sb.rd, sb.rd.err)
    ELSE CZ0fromTable(f, p, m, sb, expandAndDecodeSoundings(sb.buffer, m.nSnd))

CZ0fromParts(f, p, m) == CZ0fromSoundings(f, p, m, ReadBlock(f, m.upto))

\* read_EMdgmCZ0 with the cursor at offset p: the cursor, the exception and
\* the dictionary returned
read_EMdgmCZ0(f, p) == CZ0fromParts(f, p, MRZparts(f, p))

\* the end of read_EMdgmCZ1
CZ1end(f, p, m, sb, snd, L) ==
    Returns(SeekSet(sb.rd, p + L), CZdict(f, p, m, L) @@ [sounding |-> snd])

\* read_EMdgmCZ1 once the soundings block sb is decoded as d
CZ1fromTable(f, p, m, sb, d) ==
    IF d.err # "" THEN Raises(sb.rd, d.err)
    ELSE CZ1end(f, p, m, sb, d.dg,
                u32(f, p) + (m.nSnd * 120 - (Len(sb.buffer) + 4)))

\* read_EMdgmCZ1 from the soundings block sb on
CZ1fromSoundings(f, p, m, sb) ==
    IF m.upto.err # "" THEN Raises(m.upto, m.upto.err)
    ELSE IF sb.rd.err # "" THEN Raises(sb.rd, sb.rd.err)
    ELSE CZ1fromTable(f, p, m, sb, expandAndDecodeSoundings(sb.buffer, m.nSnd))

CZ1fromParts(f, p, m) == CZ1fromSoundings(f, p, m, ReadBlock(f, m.upto))

\* read_EMdgmCZ1 with the cursor at offset p
read_EMdgmCZ1(f, p) == CZ1fromParts(f, p, MRZparts(f, p))

\* ------------------------------------------------------------------------
\* Soundings tables encoded and decoded (SpecSnd)
\* ------------------------------------------------------------------------

\* the most soundings of a table
MaxSoundings == 2

IntegerFields ==
    {"soundingIndex", "rejectionInfo1", "rejectionInfo2", "postProcessingInfo",
     "detectionClass", "detectionConfidenceLevel", "padding", "WCBeamNumb",
     "WCrange_samples", "realTimeCleanInfo", "SIstartRange_samples",
     "SIcentreSample", "SInumSamples"}

FloatFields ==
    {FloatsA[i].name : i \in 1..Len(FloatsA)} \cup {FloatsB[i].name : i \in 1..Len(FloatsB)}
        \cup {FloatsC[i].name : i \in 1..Len(FloatsC)} \cup {"meanAbsCoeff_dbPerkm"}

\* a sounding of a normal detection by amplitude in sector 0, every other
\* field 0
PlainSounding ==
    [k \in IntegerFields \cup FloatFields \cup {"detectionType", "txSectorNumb"} |-> 0]
        @@ [detectionMethod |-> 1]

\* soundings whose three packed fields take every value of their ranges
TripleTables ==
    {[i \in 1..n |-> [detectionType |-> t, detectionMethod |-> m, txSectorNumb |-> x]
                        @@ PlainSounding] :
        n \in 1..MaxSoundings, t \in 0..2, m \in 0..15, x \in 0..9}

\* soundings of the sectors 0 to 2 in every order, the coefficient of
\* sector x being 10 + x dB/km
SectorTables ==
    {[i \in 1..n |-> [txSectorNumb |-> x[i], meanAbsCoeff_dbPerkm |-> 10 + x[i]]
                        @@ PlainSounding] :
        n \in 1..MaxSoundings, x \in [1..MaxSoundings -> 0..2]}

\* valid detects of -20 or -30 dB and non-detects of -100 or -90 dB
ReflectivityTables ==
    {[i \in 1..n |-> [detectionMethod |-> IF r[i] <= -90 THEN 0 ELSE 1,
                      reflectivity1_dB |-> r[i], reflectivity2_dB |-> r[i] - 1]
                        @@ PlainSounding] :
        n \in 1..MaxSoundings, r \in [1..MaxSoundings -> {-100, -90, -30, -20}]}

\* soundings whose 16-bit fields hold h or h + 1, whose 8-bit fields hold c
\* or c + 1, with a padding byte p and a cleaning word q
IntegerTables ==
    {[i \in 1..n |-> [soundingIndex |-> h, WCBeamNumb |-> h + 1, WCrange_samples |-> h,
                      SIstartRange_samples |-> h + 1, SIcentreSample |-> h,
                      SInumSamples |-> h + 1, rejectionInfo1 |-> c,
                      rejectionInfo2 |-> c + 1, postProcessingInfo |-> c,
                      detectionClass |-> c + 1, detectionConfidenceLevel |-> c,
                      padding |-> p, realTimeCleanInfo |-> q]
                        @@ PlainSounding] :
        n \in 1..MaxSoundings, h \in {0, 300, 65534}, c \in {0, 254},
        p \in {0, 1}, q \in {0, 1}}

SoundingTables ==
    {listofdicts2dictoflists(l) :
        l \in TripleTables \cup SectorTables \cup ReflectivityTables \cup IntegerTables}

InitSnd ==
    /\ file = << >>
    /\ pos = 0
    /\ file_size = NoSize
    /\ eof = FALSE
    /\ datagram_ident = << >>
    /\ read_method = "None"
    /\ datagram_data = NoData
    /\ err = ""
    /\ op = "init"
    /\ P0 = 0
    /\ FID = "None"
    /\ out = << >>
    /\ arg \in SoundingTables
    /\ result = NoData

\* buffer = K.encodeAndCompressSoundings(dg['sounding'])
EncodeSoundings ==
    /\ op = "init"
    /\ LET e == encodeAndCompressSoundings(arg)
       IN  /\ err' = e.err
           /\ result' = IF e.err = "" THEN [buffer |-> e.buffer] ELSE result
    /\ op' = "encodeAndCompressSoundings"
    /\ UNCHANGED <<file, pos, file_size, eof, datagram_ident, read_method,
                   datagram_data, P0, FID, out, arg>>

\* K.expandAndDecodeSoundings(buffer, N), N the soundings of the table
DecodeSoundings ==
    /\ op = "encodeAndCompressSoundings"
    /\ err = ""
    /\ LET d == expandAndDecodeSoundings(result.buffer, Len(arg.soundingIndex))
       IN  /\ err' = d.err
           /\ result' = IF d.err = "" THEN d.dg ELSE result
    /\ op' = "expandAndDecodeSoundings"
    /\ UNCHANGED <<file, pos, file_size, eof, datagram_ident, read_method,
                   datagram_data, P0, FID, out, arg>>

NextSnd ==
    \/ EncodeSoundings
    \/ DecodeSoundings

SpecSnd == InitSnd /\ [][NextSnd]_vars

\* ------------------------------------------------------------------------
\* An #MRZ record read, written compressed and read back (SpecCZ)
\* ------------------------------------------------------------------------

\* EMdgmMRZ_sounding number k of a ping: detectionMethod method,
\* reflectivity1_dB -20 - k, SInumSamples si
MRZ_soundingOf(k, method, si) ==
    U16le(k) \o << 0, 0, method >> \o Zeros(43) \o F32le(-20 - k) \o Zeros(66)
        \o U16le(si)

\* the body of a #MRZ datagram of nTx sectors, nCls classes and n soundings
\* of si imagery samples each, the samples -2, -1, 0, ...
MRZbodyOf(nTx, nCls, n, method, si) ==
    Mpartition \o Mbody(0) \o MRZ_pingInfo(nTx, 0)
        \o RepeatBytes(<< 0 >> \o Zeros(TxSectorInfoSize - 1), nTx)
        \o MRZ_rxInfo(n, 0, nCls, 0)
        \o RepeatBytes(<< 5, 0, 0, 0 >>, nCls)
        \o WriteEach([k \in 1..n |-> MRZ_soundingOf(k, method[k], si)], 1, n)
        \o WriteEach([k \in 1..(n * si) |-> S16le(k - 3)], 1, n * si)

\* files of one #MRZ datagram without unknown bytes
CZsourceFiles ==
    { Frame(Tag("M","R","Z"), MRZbodyOf(nTx, nCls, n, method, si), ns) :
        nTx \in 0..1, nCls \in 0..1, n \in 0..(MaxCount + 1),
        method \in [1..(MaxCount + 1) -> {0, 1}], si \in 0..MaxCount, ns \in Nanosecs }

InitCZ ==
    /\ file \in CZsourceFiles
    /\ pos = 0
    /\ file_size = NoSize
    /\ eof = FALSE
    /\ datagram_ident = << >>
    /\ read_method = "None"
    /\ datagram_data = NoData
    /\ err = ""
    /\ op = "init"
    /\ P0 = 0
    /\ FID = "open"
    /\ out = << >>
    /\ arg = NoData
    /\ result = NoData

\* the call returned r: the cursor, the exception, the dictionary
Returned_dg(r) == pos' = r.pos /\ err' = r.err /\ datagram_data' = r.dg

\* the call w wrote w.out and left the dictionary it was given as w.dg
Written(w) == out' = w.out /\ err' = w.err /\ datagram_data' = w.dg

\* T.write_EMdgmCZ0(dg) on an instance T opened for writing; dg is changed
\* in place, arg keeps it as it was given
WriteCZ0 ==
    /\ op = "read_EMdgmMRZ"
    /\ err = ""
    /\ Written(write_EMdgmCZ0(datagram_data))
    /\ arg' = datagram_data
    /\ op' = "write_EMdgmCZ0"
    /\ UNCHANGED <<file, pos, file_size, eof, datagram_ident, read_method, P0, FID,
                   result>>

\* T.write_EMdgmCZ1(dg)
WriteCZ1 ==
    /\ op = "read_EMdgmMRZ"
    /\ err = ""
    /\ Written(write_EMdgmCZ1(datagram_data))
    /\ arg' = datagram_data
    /\ op' = "write_EMdgmCZ1"
    /\ UNCHANGED <<file, pos, file_size, eof, datagram_ident, read_method, P0, FID,
                   result>>

\* the written file is opened and read_EMdgmCZ0 called at its start
ReadCZ0 ==
    /\ op = "write_EMdgmCZ0"
    /\ err = ""
    /\ file' = out
    /\ Returned_dg(read_EMdgmCZ0(out, 0))
    /\ P0' = 0
    /\ op' = "read_EMdgmCZ0"
    /\ UNCHANGED <<file_size, eof, datagram_ident, read_method, FID, out, arg, result>>

\* the written file is opened and read_EMdgmCZ1 called at its start
ReadCZ1 ==
    /\ op = "write_EMdgmCZ1"
    /\ err = ""
    /\ file' = out
    /\ Returned_dg(read_EMdgmCZ1(out, 0))
    /\ P0' = 0
    /\ op' = "read_EMdgmCZ1"
    /\ UNCHANGED <<file_size, eof, datagram_ident, read_method, FID, out, arg, result>>

NextCZ ==
    \/ ReadMRZ
    \/ WriteCZ0
    \/ WriteCZ1
    \/ ReadCZ0
    \/ ReadCZ1

SpecCZ == InitCZ /\ [][NextCZ]_vars


\* ------------------------------------------------------------------------
\* Properties of the soundings table (SpecSnd)
\* ------------------------------------------------------------------------

\* expandAndDecodeSoundings has returned the table of the buffer
SoundingsDecoded == op = "expandAndDecodeSoundings" /\ err = ""

\* C15: for detectionType in 0..2, detectionMethod in 0..15 and
\* txSectorNumb in 0..9 the value detectionType * 100 + detectionMethod * 10
\* + txSectorNumb is stored in one unsigned byte, and decoding gives the
\* same three fields back.
C15_PackedTripleRoundTrip ==
    /\ op = "encodeAndCompressSoundings" => err # "struct.error"
    /\ SoundingsDecoded =>
           /\ result.detectionType = arg.detectionType
           /\ result.detectionMethod = arg.detectionMethod
           /\ result.txSectorNumb = arg.txSectorNumb

\* C16: when the coefficient is the same within each transmit sector,
\* whatever the order in which the sectors first appear and whichever
\* sector numbers are present, every sounding gets back the
\* meanAbsCoeff_dbPerkm of its own sector.
C16_SectorCoefficientRoundTrip ==
    /\ op = "expandAndDecodeSoundings" => err # "IndexError"
    /\ SoundingsDecoded =>
           \A i \in 1..Len(arg.soundingIndex) :
               result.meanAbsCoeff_dbPerkm[i]
                   = Hundredths(arg.meanAbsCoeff_dbPerkm[i] * 100)

\* the float is -100.
IsSentinel(x) == x.int = -100 /\ x.frac = Big(0)

\* C17: every table is encoded, one without a valid detection included;
\* after the round trip the soundings with detectionMethod = 0, and only
\* they, have reflectivity1_dB = -100.
C17_SentinelOnlyForNonDetects ==
    /\ op = "encodeAndCompressSoundings" => err # "IndexError"
    /\ SoundingsDecoded =>
           \A i \in 1..Len(arg.soundingIndex) :
               arg.detectionMethod[i] = 0 <=> IsSentinel(result.reflectivity1_dB[i])

\* C18: every table of one sounding or more is encoded, and decoding it
\* gives back every integer field other than the packed triple:
\* soundingIndex, rejectionInfo1, rejectionInfo2, postProcessingInfo,
\* detectionClass, detectionConfidenceLevel, padding, WCBeamNumb,
\* WCrange_samples, realTimeCleanInfo, SIstartRange_samples, SIcentreSample
\* and SInumSamples.
C18_IntegerFieldsRoundTrip ==
    /\ op = "encodeAndCompressSoundings" => err # "ValueError"
    /\ SoundingsDecoded => \A k \in IntegerFields : result[k] = arg[k]

\* ------------------------------------------------------------------------
\* Properties of the compressed datagrams (SpecCZ)
\* ------------------------------------------------------------------------

\* the lengths of a compressed datagram are those of the record arg it was
\* written from: the datagram on disk holds the bytes it declares, #CZ0
\* read back reports the length of the record, #CZ1 that length less the
\* imagery, with no imagery samples left in its soundings
LengthsAgree ==
    /\ (op \in {"write_EMdgmCZ0", "write_EMdgmCZ1"} /\ err = "")
           => Len(out) = u32(out, 0)
    /\ (op = "read_EMdgmCZ0" /\ err = "")
           => datagram_data.header.numBytesDgm = arg.header.numBytesDgm
    /\ (op = "read_EMdgmCZ1" /\ err = "")
           => /\ datagram_data.header.numBytesDgm
                    = arg.header.numBytesDgm
                        - 2 * SumFirst(arg.sounding.SInumSamples, Nsoundings(arg))
              /\ \A i \in 1..Nsoundings(arg) : datagram_data.sounding.SInumSamples[i] = 0

\* C11: every #MRZ record is written by write_EMdgmCZ0 as a datagram of
\* exactly the bytes it declares, from which read_EMdgmCZ0 returns the
\* header length L of the record; write_EMdgmCZ1 and read_EMdgmCZ1 give
\* L - 2 * (the sum of SInumSamples) with every SInumSamples 0.
C11_LengthAccountingIsInverse ==
    /\ op \in {"write_EMdgmCZ0", "write_EMdgmCZ1", "read_EMdgmCZ0", "read_EMdgmCZ1"}
           => err = ""
    /\ LengthsAgree

\* a record was written compressed, read back, and the lengths agree
LengthsAgreeReached ==
    /\ op \in {"read_EMdgmCZ0", "read_EMdgmCZ1"} /\ err = ""
    /\ SumFirst(arg.sounding.SInumSamples, Nsoundings(arg)) > 0

\* C12: after read_EMdgmCZ0 or read_EMdgmCZ1 has decoded the datagram at
\* offset P0 whose length field on disk is L, the cursor is at P0 + L.
C12_CursorAtRecordBoundary ==
    (op \in {"read_EMdgmCZ0", "read_EMdgmCZ1"} /\ err = "")
        => pos = P0 + u32(file, P0)

\* ------------------------------------------------------------------------
\* Search for the next datagram: seek_next_startbyte
\* ------------------------------------------------------------------------

\* srchdat.find(c): the 0-based index of the first byte c of b, -1 if none
find(b, c) ==
    IF \E i \in 1..Len(b) : b[i] = c
    THEN (CHOOSE i \in 1..Len(b) : b[i] = c /\ \A j \in 1..(i - 1) : b[j] # c) - 1
    ELSE -1

\* seek_next_startbyte returns v with the cursor at p
Found(p, v) == [pos |-> p, err |-> "", value |-> v]

\* self.FID.seek(possible_start - 4); return True.  A negative target is
\* an OSError raised with the cursor behind the four bytes just read
SeekBack(possible_start, datchk) ==
    IF possible_start - 4 < 0
    THEN [pos |-> possible_start + Len(datchk), err |-> "OSError", value |-> "None"]
    ELSE Found(possible_start - 4, "True")

\* seek_next_startbyte(file_length, start_ptr) from the cursor cur_ptr on,
\* last = start_ptr + file_length: each pass of the loop reads up to 20
\* bytes and looks for b'#' in them; on a '#' it reads the four bytes from
\* the '#' on and tests them with the identifier expression, and after a
\* '#' that is no identifier the next pass starts behind those four bytes.
\* The passes that find no '#' move the cursor by the bytes they read and
\* are taken together here: with h the index of the first '#' between the
\* cursor and last, h \div 20 passes go by and the next one finds the '#'
\* at index h % 20; with no '#' left the passes end at last (return
\* False), or, when the file ends before last, at the end of the file,
\* where the read returns nothing, the cursor stays and the loop never
\* ends ("no return").
RECURSIVE seek_from(_, _, _)
RECURSIVE seek_first(_, _, _, _)
RECURSIVE seek_with(_, _, _, _)
RECURSIVE seek_checked(_, _, _, _)

seek_checked(f, possible_start, datchk, last) ==
    IF datagram_ident_search(datchk) THEN SeekBack(possible_start, datchk)
    ELSE seek_from(f, possible_start + Len(datchk), last)

seek_with(f, cur_ptr, stx_idx, last) ==
    seek_checked(f, cur_ptr + stx_idx, ReadBytes(f, cur_ptr + stx_idx, 4), last)

seek_first(f, cur_ptr, h, last) ==
    IF h >= 0 THEN seek_with(f, cur_ptr + 20 * (h \div 20), h % 20, last)
    ELSE IF Len(f) >= last THEN Found(last, "False")
    ELSE [pos |-> IF cur_ptr > Len(f) THEN cur_ptr ELSE Len(f),
          err |-> "no return", value |-> "None"]

seek_from(f, cur_ptr, last) ==
    IF cur_ptr >= last THEN Found(cur_ptr, "False")
    ELSE seek_first(f, cur_ptr, find(ReadBytes(f, cur_ptr, last - cur_ptr), Chr["#"]), last)

\* seek_next_startbyte(file_length, start_ptr) with the cursor at p
seek_next_startbyte(f, p, file_length, start_ptr) ==
    seek_from(f, p, start_ptr + file_length)

\* ------------------------------------------------------------------------
\* The search on a damaged file: specification SpecSeek
\* ------------------------------------------------------------------------

\* the longest run of stray bytes enumerated byte by byte
MaxGarbage == 3

\* stray bytes: zeros, '#', 'M'
GarbageBytes == {0, Chr["#"], Chr["M"]}

\* the stray bytes in front of the datagram: every run of up to MaxGarbage
\* bytes, the same behind a full block of 20 zero bytes, and '#MR' behind
\* four zero bytes (no identifier by itself)
Garbage ==
    UNION { [1..n -> GarbageBytes] : n \in 0..MaxGarbage }
        \cup { Zeros(20) \o g : g \in [1..1 -> GarbageBytes] }
        \cup { Zeros(4) \o << Chr["#"], Chr["M"], Chr["R"] >> }

\* an #IIP datagram of L bytes in all
IIPofLength(L) ==
    ScanFrame(Tag("I","I","P"),
              ParamBody(IIPfixedSize, L - HeaderSize - LenFieldSize,
                        L - HeaderSize - LenFieldSize - IIPfixedSize))

\* the lengths of the datagram behind the stray bytes: 35 = <<35,0,0,0>>,
\* 90 = <<90,0,0,0>> ('Z'), 291 = <<35,1,0,0>>, 8960 = <<0,35,0,0>>
SoughtLengths == {35, 90, 291, 8960}

\* files: stray bytes, the datagram, and nothing or one more datagram
SeekFiles ==
    { g \o IIPofLength(L) \o t :
        g \in Garbage, L \in SoughtLengths,
        t \in { << >>, ScanFrame(Tag("S","V","T"), SVTbody(0, 0)) } }

\* the file is open and measured (_initialize_sequential_read), the cursor
\* at its first byte
InitSeek ==
    /\ file \in SeekFiles
    /\ pos = 0
    /\ file_size = Len(file)
    /\ eof = FALSE
    /\ datagram_ident = << >>
    /\ read_method = "None"
    /\ datagram_data = NoData
    /\ err = ""
    /\ op = "init"
    /\ P0 = 0
    /\ FID = "open"
    /\ out = << >>
    /\ arg = NoData
    /\ result = NoData

\* self.seek_next_startbyte(filelen, start_ptr) over the whole file
SeekNextStartbyte ==
    /\ op = "init"
    /\ LET r == seek_next_startbyte(file, pos, Len(file), 0)
       IN  pos' = r.pos /\ err' = r.err /\ result' = r.value
    /\ P0' = pos
    /\ op' = "seek_next_startbyte"
    /\ UNCHANGED <<arg, file, file_size, eof, datagram_ident, read_method, datagram_data,
                   FID, out>>

\* decode_datagram after the search has returned
DecodeFound ==
    /\ op = "seek_next_startbyte" /\ err = ""
    /\ decode_datagram

NextSeek == SeekNextStartbyte \/ DecodeFound

SpecSeek == InitSeek /\ [][NextSeek]_vars

\* ------------------------------------------------------------------------
\* Properties of the search (SpecSeek)
\* ------------------------------------------------------------------------

\* the offset of the first whole datagram of f with a tag of the known set
FirstDatagram(f) ==
    CHOOSE p \in 0..(Len(f) - 8) :
        /\ TagAt(f, p) \in KnownTags /\ WellFramed(f, p)
        /\ \A q \in 0..(p - 1) : ~(TagAt(f, q) \in KnownTags /\ WellFramed(f, q))

\* C19: started at the first of N >= 0 stray bytes that hold no valid tag
\* and are followed by a valid datagram, whatever its length field,
\* seek_next_startbyte returns True with the cursor on the first byte of
\* that datagram's length field, and the decode_datagram that follows
\* reports that datagram's type.
C19_ResyncFindsNextDatagram ==
    /\ op = "seek_next_startbyte"
           => (err = "" /\ result = "True" /\ pos = FirstDatagram(file))
    /\ (op = "decode" /\ P0 = FirstDatagram(file))
           => (err = "" /\ datagram_ident = SubSeq(TagAt(file, FirstDatagram(file)), 2, 4))

\* the search has found the datagram behind stray bytes and it is decoded
ResyncReached ==
    /\ op = "decode" /\ err = "" /\ P0 = FirstDatagram(file) /\ P0 > 0
    /\ datagram_ident = Id("I","I","P")

\* ------------------------------------------------------------------------
\* The bulk reader: sequential_read_records
\* ------------------------------------------------------------------------

\* list(recs_categories.keys())
wanted_records ==
    { Id("S","K","M"), Id("I","I","P"), Id("M","R","Z"), Id("I","O","P"), Id("S","V","P") }

\* _initialize_sequential_read(start_ptr, end_ptr): the length of the
\* chunk; FID.seek(-start_ptr, 2) raises OSError before the start of the
\* file.  The instance ends with eof = False, file_size set and the
\* cursor at start_ptr
filelen(f, a) ==
    IF a.end_ptr # 0 THEN a.end_ptr - a.start_ptr ELSE Len(f) - a.start_ptr

_initialize_sequential_read(f, a) ==
    IF a.end_ptr = 0 /\ a.start_ptr > Len(f)
    THEN [pos |-> 0, err |-> "OSError", value |-> "None"]
    ELSE Found(a.start_ptr, "None")

\* sequential_read_records up to its loop: the file measured and, for a
\* start_ptr other than 0, the search for the first datagram of the chunk
Entered(f, a, i) ==
    IF i.err # "" \/ a.start_ptr = 0 THEN i
    ELSE seek_next_startbyte(f, i.pos, filelen(f, a), a.start_ptr)

\* the values taken from the record of a wanted datagram with the cursor
\* at p.  The files of this model hold no wanted type but #SVP:
\* rec['time_sec'], rec['sensorData']['depth_m'] and
\* rec['sensorData']['soundVelocity_mPerSec'], a TypeError when there is
\* no sample (sensorData is None)
Extracted(ident, f, p) ==
    CASE ident = Id("S","V","P") ->
           IF u16(f, p + HeaderSize + 2) = 0 THEN "TypeError" ELSE ""

\* one pass of the loop with the cursor at p inside the chunk: the
\* datagram is decoded, then skipped or read; d what decode_datagram has
\* done, r the reader behind the skip or the read
PassResult(r, d, e, recs) ==
    [pos |-> r.pos, err |-> IF r.err # "" THEN r.err ELSE e, eof |-> d.eof,
     ident |-> d.ident, method |-> d.method, recs |-> recs]

PassDecoded(f, p, d, recs) ==
    IF d.err # "" THEN PassResult(Rd(d.pos), d, d.err, recs)
    ELSE IF d.ident \notin wanted_records
    THEN PassResult(IF d.method = "None" THEN Rd(d.pos) ELSE SkipAt(f, d.pos), d, "", recs)
    ELSE IF Call(d.method, f, d.pos).err # ""
    THEN PassResult(Call(d.method, f, d.pos), d, "", recs)
    ELSE PassResult(Call(d.method, f, d.pos), d, Extracted(d.ident, f, d.pos),
                    IF Extracted(d.ident, f, d.pos) = ""
                    THEN Append(recs, [ident |-> d.ident, at |-> d.pos]) ELSE recs)

Pass(f, p, fs, recs) == PassDecoded(f, p, DecodeAt(f, p, fs), recs)

\* ------------------------------------------------------------------------
\* The bulk reader on a damaged file: specification SpecSeq
\* ------------------------------------------------------------------------

\* the datagrams of the files: two types that are not wanted, one wanted
SeqDgms ==
    { ScanFrame(Tag("S","V","T"), SVTbody(0, 0)),
      ScanFrame(Tag("S","C","L"), SensorBody(SCLdataSize, 0)),
      ScanFrame(Tag("S","V","P"), SVPbody(1, 0)) }

\* the stray bytes between two datagrams or behind the last
Gaps == { << >>, Zeros(3), Zeros(8), Zeros(12), << 0, Chr["#"], Chr["M"], 0, 0 >> }

\* a datagram, stray bytes, nothing or a second datagram, stray bytes
SeqFiles ==
    { d1 \o g1 \o d2 \o g2 :
        d1 \in SeqDgms, g1 \in Gaps, d2 \in SeqDgms \cup {<< >>}, g2 \in {<< >>, Zeros(3)} }

\* sequential_read_records(start_ptr, 0): from the start of the file, from
\* inside the first datagram, from the first byte behind it
SeqArgs(f) ==
    { [start_ptr |-> s, end_ptr |-> 0, first_installation_rec |-> FALSE] :
        s \in {0, 2, u32(f, 0)} }

\* kmall(filename), the arguments of the call in arg
InitSeq ==
    /\ file \in SeqFiles
    /\ arg \in SeqArgs(file)
    /\ pos = 0
    /\ file_size = NoSize
    /\ eof = FALSE
    /\ datagram_ident = << >>
    /\ read_method = "None"
    /\ datagram_data = NoData
    /\ err = ""
    /\ op = "init"
    /\ P0 = 0
    /\ FID = "None"
    /\ out = << >>
    /\ result = NoData

\* sequential_read_records(start_ptr, end_ptr) is called and reaches its
\* loop (or raises); result holds the records taken so far
SeqCall ==
    /\ op = "init"
    /\ LET i == Entered(file, arg, _initialize_sequential_read(file, arg))
       IN  pos' = i.pos /\ err' = i.err
    /\ FID' = "open"
    /\ file_size' = Len(file)
    /\ eof' = FALSE
    /\ result' = << >>
    /\ P0' = arg.start_ptr
    /\ op' = "sequential_read_records"
    /\ UNCHANGED <<arg, file, datagram_ident, read_method, datagram_data, out>>

\* one pass of "while not self.eof" that stays in the loop
Passed(r) ==
    /\ pos' = r.pos
    /\ err' = r.err
    /\ eof' = (eof \/ r.eof)
    /\ datagram_ident' = r.ident
    /\ read_method' = r.method
    /\ result' = r.recs
    /\ datagram_data' = IF Len(r.recs) > Len(result)
                        THEN Returned(r.method, file, P0') ELSE datagram_data

SeqPass ==
    /\ op = "sequential_read_records" /\ err = ""
    /\ ~eof
    /\ pos < arg.start_ptr + filelen(file, arg)
    /\ P0' = pos
    /\ Passed(Pass(file, pos, file_size, result))
    /\ op' = "sequential_read_records"
    /\ UNCHANGED <<arg, file, file_size, FID, out>>

\* the loop ends, at eof or at the end of the chunk, and the call returns
\* the records taken
SeqReturn ==
    /\ op = "sequential_read_records" /\ err = ""
    /\ eof \/ pos >= arg.start_ptr + filelen(file, arg)
    /\ eof' = TRUE
    /\ op' = "returned"
    /\ UNCHANGED <<arg, result, file, file_size, pos, P0, err, datagram_ident, read_method,
                   datagram_data, FID, out>>

NextSeq == SeqCall \/ SeqPass \/ SeqReturn

SpecSeq == InitSeq /\ [][NextSeq]_vars

\* ------------------------------------------------------------------------
\* Properties of the bulk reader (SpecSeq)
\* ------------------------------------------------------------------------

\* a whole datagram with a tag of the known set lies at offset p of f
ValidStart(f, p) ==
    /\ p + HeaderSize + LenFieldSize <= Len(f)
    /\ TagAt(f, p) \in KnownTags
    /\ WellFramed(f, p)

\* the first offset on the walk over the declared lengths from p on that
\* is not the start of a valid datagram
RECURSIVE FirstInvalid(_, _)
FirstInvalid(f, p) == IF ValidStart(f, p) THEN FirstInvalid(f, p + u32(f, p)) ELSE p

\* the walk from the start of f runs into bytes that start no datagram,
\* and a valid datagram lies behind them
HasGap(f) ==
    \E q \in (FirstInvalid(f, 0) + 1)..(Len(f) - HeaderSize - LenFieldSize) : ValidStart(f, q)

\* the scan has gone over a valid datagram that lies behind the gap
BehindGap ==
    \E q \in (FirstInvalid(file, 0) + 1)..(Len(file) - HeaderSize - LenFieldSize) :
        ValidStart(file, q) /\ pos >= q + u32(file, q)

\* the call has ended: returned, or left by an exception
ScanOver == op = "returned" \/ (op = "sequential_read_records" /\ err # "")

\* C20: when the sequential scan reaches bytes that are not a valid
\* datagram start and valid datagrams follow later in the file, it
\* resynchronizes and goes on to process the datagrams behind the gap: the
\* scan does not end there with an error.
C20_ScanRecoversFromGap ==
    (ScanOver /\ HasGap(file) /\ arg.start_ptr <= FirstInvalid(file, 0))
        => (err = "" /\ BehindGap)

\* a scan entered on the stray bytes behind the first datagram has found
\* the second datagram and has returned
GapSkippedAtEntry ==
    /\ op = "returned" /\ err = ""
    /\ HasGap(file)
    /\ arg.start_ptr = FirstInvalid(file, 0)
    /\ BehindGap

\* ------------------------------------------------------------------------
\* Quantization in the delta codec (SpecCodec)
\* ------------------------------------------------------------------------

\* |x - y| of two wide numbers
BigDist(x, y) == IF BigLess(x, y) THEN BigSub(y, x) ELSE BigSub(x, y)

\* the code c is the integer nearest to d * levels / r, r > 0:
\* 2 * |c * r - d * levels| <= r
Nearest(c, d, r, bits) ==
    ~BigLess(Big(r), BigMul(BigDist(BigMul(c, r), BigMul(Levels(bits), d)), 2))

\* the codes of the buffer b of the array A are the nearest integers, all
\* of them 0 when the encoded quantity is constant
CodesAreNearest(A, b) ==
    \A i \in 1..(Len(A) - 1) :
        IF Range(EncodedValues(A, b)) = 0
        THEN CodeAt(b, 17 + (i - 1) * (b[17] \div 8), b[17]) = Big(0)
        ELSE Nearest(CodeAt(b, 17 + (i - 1) * (b[17] \div 8), b[17]),
                     (IF s32(b, 12) < 0 THEN Diff(A)[i] ELSE A[i + 1])
                         - SeqMin(EncodedValues(A, b)),
                     Range(EncodedValues(A, b)), b[17])

\* C23: each stored integer is round((value - min) * levels / (max - min)),
\* the nearest integer, levels being 255, 65535 or 4294967295 and value,
\* min, max those of the encoded quantity; with max = min every stored
\* integer is 0.
C23_CodesAreRounded ==
    Encoded => CodesAreNearest(arg.A, result.buffer)

\* the codes of a constant quantity are all 0
ConstantCodesAreZero ==
    (Encoded /\ Range(EncodedValues(arg.A, result.buffer)) = 0)
        => CodesAreNearest(arg.A, result.buffer)

\* ------------------------------------------------------------------------
\* The index of a file: index_file
\* ------------------------------------------------------------------------

\* str(dgm_type) of the four tag bytes: b'#MRZ' gives the seven characters
\* "b'#MRZ'" (exact for printable bytes other than the quote and the
\* backslash)
str(tag) == << 98, 39 >> \o tag \o << 39 >>

\* l[:-1]
AllButLast(l) == IF l = << >> THEN << >> ELSE SubSeq(l, 1, Len(l) - 1)

\* the lists and the counter after the assignments before the loop
NoIndex ==
    [msgoffset |-> << >>, msgsize |-> << >>, msgtime |-> << >>, msgtype |-> << >>,
     pktcnt |-> 0, Index |-> NoData]

\* one pass of the loop of index_file: the cursor, the exception that
\* leaves the call and the lists
IndexState(p, e, x) == [pos |-> p, err |-> e, lists |-> x]

\* the except branch: the last offset and the last size are dropped
Dropped(p, x, offsets, sizes) ==
    IndexState(p, "", [x EXCEPT !.msgoffset = AllButLast(offsets),
                                !.msgsize = AllButLast(sizes)])

\* the header is unpacked from msg_buffer ('ccccBBHII', 16 bytes) and the
\* row is added; struct.error leaves the call when the buffer is shorter
Unpacked(f, p, x, offsets, sizes, msg_buffer) ==
    IF Len(msg_buffer) < 16
    THEN IndexState(p + 4 + Len(msg_buffer), "struct.error",
                    [x EXCEPT !.msgoffset = offsets, !.msgsize = sizes])
    ELSE IndexState(p + 4 + Len(msg_buffer), "",
                    [x EXCEPT !.msgoffset = offsets, !.msgsize = sizes,
                              !.msgtype = Append(x.msgtype, str(SubSeq(msg_buffer, 1, 4))),
                              !.msgtime = Append(x.msgtime,
                                                 dgtime(u32(msg_buffer, 8), u32(msg_buffer, 12))),
                              !.pktcnt = x.pktcnt + 1])

\* msg_buffer = self.FID.read(int(self.msgsize[self.pktcnt]) - 4): an
\* IndexError when the list is too short, a ValueError for a length below
\* -1, the rest of the file for -1
Buffered(f, p, x, offsets, sizes) ==
    IF x.pktcnt + 1 > Len(sizes) THEN Dropped(p + 4, x, offsets, sizes)
    ELSE IF sizes[x.pktcnt + 1] - 4 < -1 THEN Dropped(p + 4, x, offsets, sizes)
    ELSE Unpacked(f, p, x, offsets, sizes,
                  ReadBytes(f, p + 4, IF sizes[x.pktcnt + 1] - 4 = -1 THEN Len(f)
                                      ELSE sizes[x.pktcnt + 1] - 4))

\* a pass with the cursor at p: the offset is appended, then the length is
\* unpacked from the next four bytes (struct.error when fewer are left)
IndexedFrom(f, p, x) ==
    IF Len(ReadBytes(f, p, 4)) < 4
    THEN Dropped(p + Len(ReadBytes(f, p, 4)), x, Append(x.msgoffset, p), x.msgsize)
    ELSE Buffered(f, p, x, Append(x.msgoffset, p), Append(x.msgsize, u32(f, p)))

\* pd.DataFrame({...}): the rows of the table, a ValueError when the lists
\* differ in length
Table(x) ==
    [kind |-> "DataFrame",
     rows |-> [i \in 1..Len(x.msgoffset) |->
                  [Time |-> x.msgtime[i], ByteOffset |-> x.msgoffset[i],
                   MessageSize |-> x.msgsize[i], MessageType |-> x.msgtype[i]]]]

SameLengths(x) ==
    /\ Len(x.msgsize) = Len(x.msgoffset)
    /\ Len(x.msgtime) = Len(x.msgoffset)
    /\ Len(x.msgtype) = Len(x.msgoffset)

\* ------------------------------------------------------------------------
\* The index on the files of the scanner: specification SpecIndex
\* ------------------------------------------------------------------------

\* index_file is called on a new instance and reaches its loop
IndexCall ==
    /\ op = "init"
    /\ FID' = "open"
    /\ file_size' = Len(file)
    /\ pos' = 0
    /\ P0' = 0
    /\ result' = NoIndex
    /\ err' = ""
    /\ op' = "index_file"
    /\ UNCHANGED <<arg, file, eof, datagram_ident, read_method, datagram_data, out>>

IndexStep(s) == pos' = s.pos /\ err' = s.err /\ result' = s.lists

\* one pass of "while self.FID.tell() < self.file_size"
IndexPass ==
    /\ op = "index_file" /\ err = ""
    /\ pos < file_size
    /\ IndexStep(IndexedFrom(file, pos, result))
    /\ P0' = pos
    /\ op' = "index_file"
    /\ UNCHANGED <<arg, file, file_size, eof, datagram_ident, read_method, datagram_data,
                   FID, out>>

\* the loop has ended and the table is built
IndexBuilt ==
    /\ op = "index_file" /\ err = ""
    /\ pos >= file_size
    /\ IF SameLengths(result)
       THEN err' = "" /\ result' = [result EXCEPT !.Index = Table(result)]
       ELSE err' = "ValueError" /\ result' = result
    /\ op' = "indexed"
    /\ UNCHANGED <<arg, file, file_size, pos, P0, eof, datagram_ident, read_method,
                   datagram_data, FID, out>>

\* kmall_tester.py: for a row of a type it lists, k.FID.seek(offset, 0)
\* and the reader of that type
IndexedRead ==
    /\ op \in {"indexed", "indexed_read"}
    /\ result.Index.kind = "DataFrame"
    /\ \E i \in 1..Len(result.Index.rows) :
          \E tag \in KnownTags :
             /\ result.Index.rows[i].MessageType = str(tag)
             /\ \E m \in TesterMethod(tag) :
                   LET r == Call(m, file, result.Index.rows[i].ByteOffset)
                   IN  pos' = r.pos /\ err' = r.err
             /\ P0' = result.Index.rows[i].ByteOffset
    /\ op' = "indexed_read"
    /\ UNCHANGED <<arg, result, file, file_size, eof, datagram_ident, read_method,
                   datagram_data, FID, out>>

NextIndex == IndexCall \/ IndexPass \/ IndexBuilt \/ IndexedRead

SpecIndex == InitScan /\ [][NextIndex]_vars

\* ------------------------------------------------------------------------
\* Properties of the index (SpecIndex)
\* ------------------------------------------------------------------------

\* the file is a sequence of whole datagrams with tags of the known set
WellFormed(f) == FirstInvalid(f, 0) = Len(f)

\* the number of datagrams of a well-formed file from offset p on
RECURSIVE CountFrom(_, _)
CountFrom(f, p) == IF p >= Len(f) THEN 0 ELSE 1 + CountFrom(f, p + u32(f, p))

\* the rows of the table follow the datagrams of the file
RowsFollowFile(f, rows) ==
    /\ Len(rows) = CountFrom(f, 0)
    /\ Len(rows) > 0 => rows[1].ByteOffset = 0
    /\ \A i \in 2..Len(rows) :
           rows[i].ByteOffset = rows[i - 1].ByteOffset + rows[i - 1].MessageSize
    /\ Len(rows) > 0 =>
           rows[Len(rows)].ByteOffset + rows[Len(rows)].MessageSize = Len(f)
    /\ \A i \in 1..Len(rows) : rows[i].MessageType = str(TagAt(f, rows[i].ByteOffset))

\* the index of a well-formed file has one row per datagram, in file order
IndexFollowsFile ==
    (op = "indexed" /\ WellFormed(file))
        => (err = "" /\ RowsFollowFile(file, result.Index.rows))

\* C21: index_file on a well-formed file of n datagrams yields n rows in
\* file order: the first at ByteOffset 0, each later one at the previous
\* ByteOffset + MessageSize, the last ending at the file size, each
\* MessageType naming the tag at ByteOffset + 4; and the reader of a row's
\* type, called at the row's ByteOffset, decodes that datagram.
C21_IndexRowsAreTheDatagrams ==
    /\ IndexFollowsFile
    /\ (op = "indexed_read" /\ WellFormed(file)) => err = ""

\* C29: at the end of every pass of the loop of index_file the lists
\* msgoffset, msgsize, msgtime and msgtype all have pktcnt entries, also
\* after the error branch has run at the end of a damaged file.
C29_IndexListsStayParallel ==
    (op = "index_file" /\ err = "")
        => /\ Len(result.msgoffset) = result.pktcnt
           /\ Len(result.msgsize) = result.pktcnt
           /\ Len(result.msgtime) = result.pktcnt
           /\ Len(result.msgtype) = result.pktcnt

\* the lists stay parallel on the well-formed files
ListsParallelWhenWellFormed ==
    WellFormed(file) => C29_IndexListsStayParallel

\* ------------------------------------------------------------------------
\* read_first_datagram (SpecFirst)
\* ------------------------------------------------------------------------

\* the state read_first_datagram ends in: the cursor, the exception, the
\* attributes decode_datagram and read_datagram set, and the offsets at
\* which read_datagram has called a decoder
FirstState(p, e, d, dg, reads) ==
    [pos |-> p, err |-> e, eof |-> d.eof, ident |-> d.ident, method |-> d.method,
     dg |-> dg, reads |-> reads]

\* read_datagram in the loop: the decoder of the decoded datagram d at p
\* has ended in r
FirstRead(f, p, d, r) ==
    FirstState(r.pos, r.err, d, IF r.err = "" THEN Returned(d.method, f, p) ELSE NoData,
               << p >>)

\* "while not self.eof" with the cursor at p: decode_datagram, then
\* skip_datagram unless the identifier is the wanted one; "no return"
\* when a skip does not move the cursor forward
RECURSIVE FirstFrom(_, _, _)
FirstSkipped(f, p, ident, d, s) ==
    IF s.err # "" THEN FirstState(s.pos, s.err, d, NoData, << >>)
    ELSE IF s.pos <= p THEN FirstState(p, "no return", d, NoData, << >>)
    ELSE FirstFrom(f, s.pos, ident)

FirstDecoded(f, p, ident, d) ==
    IF d.err # "" \/ d.eof THEN FirstState(d.pos, d.err, d, NoData, << >>)
    ELSE IF d.ident = ident THEN FirstRead(f, d.pos, d, Call(d.method, f, d.pos))
    ELSE FirstSkipped(f, p, ident, d, SkipAt(f, d.pos))

FirstFrom(f, p, ident) == FirstDecoded(f, p, ident, DecodeAt(f, p, Len(f)))

\* the identifiers asked for
FirstIdents ==
    { Id("M","R","Z"), Id("I","O","P"), Id("S","V","T"), Id("S","K","M"), Id("I","B","E") }

FirstEnds(r) ==
    /\ pos' = r.pos
    /\ err' = r.err
    /\ eof' = r.eof
    /\ datagram_ident' = r.ident
    /\ read_method' = r.method
    /\ datagram_data' = r.dg
    /\ result' = [value |-> r.dg, reads |-> r.reads]

\* read_first_datagram(datagram_identifier), called in any state of the
\* instance: the file is opened or rewound, the loop runs from offset 0
read_first_datagram ==
    /\ \E ident \in FirstIdents :
          /\ arg' = [datagram_identifier |-> ident]
          /\ FirstEnds(FirstFrom(file, 0, ident))
    /\ FID' = "open"
    /\ file_size' = Len(file)
    /\ P0' = 0
    /\ op' = "read_first_datagram"
    /\ UNCHANGED <<file, out>>

NextFirst == read_first_datagram \/ decode_datagram \/ skip_datagram \/ read_datagram

SpecFirst == InitScan /\ [][NextFirst]_vars

\* the offset of the first datagram of the well-formed file f from p on
\* whose identifier is ident, -1 when there is none
RECURSIVE FirstWith(_, _, _)
FirstWith(f, p, ident) ==
    IF p >= Len(f) THEN -1
    ELSE IF SubSeq(TagAt(f, p), 2, 4) = ident THEN p
    ELSE FirstWith(f, p + u32(f, p), ident)

\* what the call has to end in on the file f
FirstFound(f, ident) ==
    IF FirstWith(f, 0, ident) = -1
    THEN err = "" /\ eof /\ datagram_data = NoData /\ result.reads = << >>
    ELSE /\ err = ""
         /\ result.reads = << FirstWith(f, 0, ident) >>
         /\ datagram_data = Returned(read_method, f, FirstWith(f, 0, ident))
         /\ datagram_data.header = HeaderRec(f, FirstWith(f, 0, ident))

\* C27: on a well-formed file read_first_datagram(X) returns the decoded
\* first datagram with identifier X, having decoded in full no datagram
\* before it, or None at the end of a file without such a datagram,
\* whatever an earlier call has left in the instance.
C27_FirstDatagramOfType ==
    (op = "read_first_datagram" /\ WellFormed(file))
        => FirstFound(file, arg.datagram_identifier)

\* the same on the well-formed files without '#IB.' datagrams
FirstFoundWithoutIB ==
    (op = "read_first_datagram" /\ WellFormed(file)
       /\ \A p \in Boundaries(file, 0) :
             p < Len(file) => SubSeq(TagAt(file, p), 1, 3) # << 35, 73, 66 >>)
        => FirstFound(file, arg.datagram_identifier)

\* ------------------------------------------------------------------------
\* fast_read_start_end_time (SpecTime)
\* ------------------------------------------------------------------------

\* the state a loop of fast_read_start_end_time ends in; time is the
\* value assigned to start_time or end_time, NoData for None
TimeState(p, e, d, dg, time) ==
    [pos |-> p, err |-> e, eof |-> d.eof, ident |-> d.ident, method |-> d.method,
     dg |-> dg, time |-> time]

\* read_datagram has called the decoder of the datagram d at p and it has
\* ended in r; datagram_data['header']['dgtime'] of the returned record
TimeRead(f, p, d, r) ==
    IF r.err # "" THEN TimeState(r.pos, r.err, d, NoData, NoData)
    ELSE TimeState(r.pos, "", d, Returned(d.method, f, p), Returned(d.method, f, p).header.dgtime)

\* decode_datagram has ended in d with self.datagram_data = dg: at the
\* end of the file read_datagram does nothing and the time is taken from
\* the record self.datagram_data still holds (a TypeError, caught, when it
\* is None; the loop then ends on eof)
TimeDecoded(f, d, dg) ==
    IF d.err # "" THEN TimeState(d.pos, d.err, d, dg, NoData)
    ELSE IF d.eof THEN TimeState(d.pos, "", d, dg, IF dg = NoData THEN NoData ELSE dg.header.dgtime)
    ELSE TimeRead(f, d.pos, d, Call(d.method, f, d.pos))

\* "while not self.eof: decode_datagram(); read_datagram(); try: ... break"
\* entered in the state s of the instance with the cursor at p
TimeLoop(f, p, s) ==
    IF s.eof THEN [s EXCEPT !.pos = p, !.time = NoData]
    ELSE TimeDecoded(f, DecodeAt(f, p, Len(f)), s.dg)

\* self.FID.seek(0); chunksize = min(10 * 1024, self.FID.tell())
chunksize == Min(10 * 1024, 0)

\* the second half: FID.seek(-chunksize, 2), seek_next_startbyte(chunksize,
\* self.FID.tell()) ending in r, and the second loop
TimeEnd(f, a, r) ==
    IF r.err # "" THEN [a EXCEPT !.pos = r.pos, !.err = r.err, !.time = NoData]
    ELSE TimeLoop(f, r.pos, a)

\* the call from the first loop's end a on; value is the returned list
TimeBoth(a, b) ==
    [b EXCEPT !.time = IF a.err # "" \/ b.err # "" THEN NoData
                       ELSE [start_time |-> a.time, end_time |-> b.time]]

TimeFrom(f, a) ==
    IF a.err # "" THEN TimeBoth(a, a)
    ELSE TimeBoth(a, TimeEnd(f, a, seek_next_startbyte(f, Len(f) - chunksize, chunksize,
                                                       Len(f) - chunksize)))

\* self.datagram_data = None; self.eof = False; the file opened or rewound
TimeStart ==
    [pos |-> 0, err |-> "", eof |-> FALSE, ident |-> << >>, method |-> "None",
     dg |-> NoData, time |-> NoData]

\* an #IIP datagram of L bytes in all with time_nanosec = nanosec
TimedIIP(L, nanosec) ==
    Frame(Tag("I","I","P"),
          ParamBody(IIPfixedSize, L - HeaderSize - LenFieldSize,
                    L - HeaderSize - LenFieldSize - IIPfixedSize), nanosec)

\* files: a first datagram of any type with a decoder, or an #IIP
\* datagram of more than 10 KiB, at time_nanosec = 500; behind it nothing
\* or a datagram at time_nanosec = 0
TimeFiles ==
    { d \o t :
        d \in UNION { StandardDgms(c, e) : c \in 0..1, e \in 0..MaxExtra }
                 \cup { TimedIIP(L, 500) : L \in {10 * 1024 + 60, 10 * 1024 + 61} },
        t \in { << >>, Frame(Tag("S","V","T"), SVTbody(0, 0), 0), TimedIIP(35, 0) } }

InitTime ==
    /\ file \in TimeFiles
    /\ pos = 0
    /\ file_size = NoSize
    /\ eof = FALSE
    /\ datagram_ident = << >>
    /\ read_method = "None"
    /\ datagram_data = NoData
    /\ err = ""
    /\ op = "init"
    /\ P0 = 0
    /\ FID = "None"
    /\ out = << >>
    /\ arg = NoData
    /\ result = NoData

TimeEnds(r) ==
    /\ pos' = r.pos
    /\ err' = r.err
    /\ eof' = r.eof
    /\ datagram_ident' = r.ident
    /\ read_method' = r.method
    /\ datagram_data' = r.dg
    /\ result' = r.time

\* fast_read_start_end_time, called in any state of the instance
fast_read_start_end_time ==
    /\ TimeEnds(TimeFrom(file, TimeLoop(file, 0, TimeStart)))
    /\ FID' = "open"
    /\ file_size' = Len(file)
    /\ P0' = 0
    /\ op' = "fast_read_start_end_time"
    /\ UNCHANGED <<arg, file, out>>

NextTime == fast_read_start_end_time \/ decode_datagram \/ skip_datagram

SpecTime == InitTime /\ [][NextTime]_vars

\* the datagrams that start within the last min(10 KiB, file size) bytes
InLastChunk(f) ==
    { p \in Boundaries(f, 0) : p < Len(f) /\ p >= Len(f) - Min(10 * 1024, Len(f)) }

\* C26: fast_read_start_end_time returns [start, end]: start is the header
\* time of the first datagram of the file, end the header time of a
\* datagram that starts within the last min(10 KiB, file size) bytes
\* (when a datagram starts there).
C26_StartAndEndTime ==
    (op = "fast_read_start_end_time" /\ InLastChunk(file) # {})
        => /\ err = ""
           /\ result.start_time = HeaderRec(file, 0).dgtime
           /\ \E p \in InLastChunk(file) : result.end_time = HeaderRec(file, p).dgtime

\* the start time is the header time of the first datagram
StartTimeIsFirst ==
    op = "fast_read_start_end_time"
        => (err = "" /\ result.start_time = HeaderRec(file, 0).dgtime)

\* ------------------------------------------------------------------------
\* The bulk reader over consecutive chunks of a file: specification SpecChunk
\* ------------------------------------------------------------------------

\* the largest number of chunks a file is read in
MaxChunks == 3

\* well-formed files of two or three datagrams
ChunkFiles ==
    { d1 \o d2 \o d3 : d1 \in SeqDgms, d2 \in SeqDgms, d3 \in SeqDgms \cup {<< >>} }

\* the chunk boundaries tried: around the start of the second datagram
\* and around the start of the third
Cuts(f) ==
    { c \in { s + k : s \in {u32(f, 0), u32(f, 0) + u32(f, u32(f, 0))},
                      k \in {-4, -1, 0, 1, 5} } : c > 0 /\ c < Len(f) }

\* kmall(filename); the first chunk is [0, end_ptr)
InitChunk ==
    /\ file \in ChunkFiles
    /\ \E c \in Cuts(file) :
          arg = [start_ptr |-> 0, end_ptr |-> c, first_installation_rec |-> FALSE]
    /\ pos = 0
    /\ file_size = NoSize
    /\ eof = FALSE
    /\ datagram_ident = << >>
    /\ read_method = "None"
    /\ datagram_data = NoData
    /\ err = ""
    /\ op = "init"
    /\ P0 = 0
    /\ FID = "None"
    /\ out = << >>
    /\ result = NoData

\* the call for one chunk has returned; the next chunk starts where it
\* ended and ends at a later boundary or at the end of the file:
\* sequential_read_records(start_ptr, end_ptr) up to its loop.  out keeps
\* what the earlier calls have returned
ChunkNext ==
    /\ op = "returned"
    /\ arg.end_ptr < Len(file)
    /\ Len(out) < MaxChunks - 1
    /\ \E c \in { x \in Cuts(file) : x > arg.end_ptr } \cup { Len(file) } :
          /\ Len(out) = MaxChunks - 2 => c = Len(file)
          /\ arg' = [start_ptr |-> arg.end_ptr, end_ptr |-> c,
                     first_installation_rec |-> FALSE]
          /\ LET i == Entered(file, arg', _initialize_sequential_read(file, arg'))
             IN  pos' = i.pos /\ err' = i.err
    /\ out' = Append(out, [start_ptr |-> arg.start_ptr, end_ptr |-> arg.end_ptr,
                           recs |-> result])
    /\ result' = << >>
    /\ eof' = FALSE
    /\ P0' = arg.end_ptr
    /\ op' = "sequential_read_records"
    /\ UNCHANGED <<file, file_size, datagram_ident, read_method, datagram_data, FID>>

NextChunk == SeqCall \/ SeqPass \/ SeqReturn \/ ChunkNext

SpecChunk == InitChunk /\ [][NextChunk]_vars

\* the calls made so far with what they have returned
Calls ==
    Append(out, [start_ptr |-> arg.start_ptr, end_ptr |-> arg.end_ptr, recs |-> result])

\* the offsets of the wanted datagrams of the well-formed file f
WantedStarts(f) ==
    { p \in Boundaries(f, 0) : p < Len(f) /\ SubSeq(TagAt(f, p), 2, 4) \in wanted_records }

\* how many of the records recs were read at offset p
ReadAt(recs, p) == Cardinality({ i \in DOMAIN recs : recs[i].at = p })

\* the last chunk has been read
ChunksDone == op = "returned" /\ arg.end_ptr = Len(file)

\* C30: when a well-formed file is read as consecutive byte ranges up to
\* the file size, each by its own call of sequential_read_records, every
\* wanted datagram is processed by exactly one call, the one whose range
\* contains the first byte of the datagram, wherever the boundaries fall.
C30_ChunksCoverFileOnce ==
    /\ ScanOver => err = ""
    /\ ChunksDone =>
          \A p \in WantedStarts(file) : \A k \in DOMAIN Calls :
              ReadAt(Calls[k].recs, p) =
                  IF Calls[k].start_ptr <= p /\ p < Calls[k].end_ptr THEN 1 ELSE 0

\* no wanted datagram is left out by all the calls
NoneSkipped ==
    (ScanOver => err = "")
    /\ (ChunksDone =>
          \A p \in WantedStarts(file) : \E k \in DOMAIN Calls : ReadAt(Calls[k].recs, p) >= 1)

\* the boundaries fall on datagram starts or behind the length field of a
\* datagram: then the claim holds
CutsClearOfLengthFields ==
    \A k \in DOMAIN Calls : \A p \in Boundaries(file, 0) :
        ~(p < Calls[k].end_ptr /\ Calls[k].end_ptr < p + 5)

CoveredOnceWhenClear == CutsClearOfLengthFields => C30_ChunksCoverFileOnce

\* ------------------------------------------------------------------------
\* Splitting a ping by transmit sector: _divide_rec (SpecDivide)
\* ------------------------------------------------------------------------

\* copy.copy(rec): a new dictionary with the values of rec; the value
\* under 'header' stays the same dictionary object, which is kept here as
\* a reference "header" into the objects of the call
ShallowCopy(rec) == rec

\* v[sec] for every column v of rec['txSectorInfo']
SectorInfoAt(rec, sec) ==
    [k \in DOMAIN rec.txSectorInfo |-> rec.txSectorInfo[k][sec + 1]]

\* np.where(np.array(rec['sounding']['txSectorNumb']) == sec)
rx_index(rec, sec) ==
    { i \in 1..Len(rec.sounding.txSectorNumb) : rec.sounding.txSectorNumb[i] = sec }

\* the entries of the list v at the indices of I, in order
RECURSIVE Picked(_, _, _)
Picked(v, I, i) ==
    IF i > Len(v) THEN << >>
    ELSE (IF i \in I THEN << v[i] >> ELSE << >>) \o Picked(v, I, i + 1)

\* {k: np.array(v)[rx_index] for (k, v) in rec['sounding'].items()}
SoundingsOf(rec, sec) ==
    [k \in DOMAIN rec.sounding |-> Picked(rec.sounding[k], rx_index(rec, sec), 1)]

\* one pass of the loop for the sector number sec: the sub-record
split_rec(rec, sec) ==
    [ShallowCopy(rec) EXCEPT !.txSectorInfo = SectorInfoAt(rec, sec),
                             !.sounding = SoundingsOf(rec, sec)]

\* the loop from the i-th sector number on; objects.header is the header
\* dictionary every sub-record refers to, whose 'dgtime' each pass assigns
RECURSIVE divide_from(_, _, _, _, _)
divide_from(rec, pingtime, i, totalrecs, objects) ==
    IF i > Len(rec.txSectorInfo.txSectorNumb)
    THEN [err |-> "", totalrecs |-> totalrecs, objects |-> objects]
    ELSE IF rec.txSectorInfo.txSectorNumb[i] >= Len(rec.txSectorInfo.txSectorNumb)
    THEN [err |-> "IndexError", totalrecs |-> << >>, objects |-> objects]
    ELSE IF rec.sounding = NoData
    THEN [err |-> "TypeError", totalrecs |-> << >>, objects |-> objects]
    ELSE divide_from(rec, pingtime, i + 1,
                     Append(totalrecs, split_rec(rec, rec.txSectorInfo.txSectorNumb[i])),
                     [objects EXCEPT !.header.dgtime =
                         pingtime + SectorInfoAt(rec, rec.txSectorInfo.txSectorNumb[i])
                                        .sectorTransmitDelay_sec])

\* _divide_rec(rec) with self.datagram_ident = ident
_divide_rec(ident, rec, objects) ==
    IF ident # Id("M","R","Z") THEN [err |-> "", totalrecs |-> << rec >>, objects |-> objects]
    ELSE IF rec.pingInfo.numTxSectors = 1
    THEN [err |-> "", totalrecs |-> << rec >>, objects |-> objects]
    ELSE divide_from(rec, objects.header.dgtime, 1, << >>, objects)

\* the sector delays tried, in units of 2^-10 s (sums of such values and
\* the datagram time are exact in floating point)
Delays == 0..2

\* the records of a ping of n sectors numbered 0..n-1 with m soundings;
\* 'sounding' is None when there is no sounding (listofdicts2dictoflists)
PingRecs ==
    { [header |-> "header",
       pingInfo |-> [numTxSectors |-> n],
       txSectorInfo |-> [txSectorNumb |-> [i \in 1..n |-> i - 1],
                         sectorTransmitDelay_sec |-> d],
       sounding |-> IF Len(s) = 0 THEN NoData
                    ELSE [txSectorNumb |-> s, soundingIndex |-> [i \in 1..Len(s) |-> i - 1]]] :
        n \in 1..MaxCount, d \in UNION { [1..k -> Delays] : k \in 1..MaxCount },
        s \in UNION { [1..m -> 0..(MaxCount - 1)] : m \in 0..MaxSoundings } }

WellFormedPing(rec) ==
    /\ Len(rec.txSectorInfo.sectorTransmitDelay_sec) = rec.pingInfo.numTxSectors
    /\ rec.sounding # NoData =>
          \A i \in 1..Len(rec.sounding.txSectorNumb) :
              rec.sounding.txSectorNumb[i] < rec.pingInfo.numTxSectors

\* read_datagram has returned rec, the datagram decoded is an #MRZ or,
\* with the same record, of another type
InitDivide ==
    /\ arg \in { [datagram_ident |-> ident, rec |-> rec,
                  objects |-> [header |-> [dgtime |-> 1024000]]] :
                  ident \in {Id("M","R","Z"), Id("S","K","M")},
                  rec \in { r \in PingRecs : WellFormedPing(r) } }
    /\ file = << >>
    /\ pos = 0
    /\ file_size = 0
    /\ eof = FALSE
    /\ datagram_ident = arg.datagram_ident
    /\ read_method = "None"
    /\ datagram_data = NoData
    /\ err = ""
    /\ op = "init"
    /\ P0 = 0
    /\ FID = "open"
    /\ out = << >>
    /\ result = NoData

\* recs = self._divide_rec(rec)
DivideRec ==
    /\ op = "init"
    /\ LET r == _divide_rec(datagram_ident, arg.rec, arg.objects)
       IN  err' = r.err /\ result' = [totalrecs |-> r.totalrecs, objects |-> r.objects]
    /\ op' = "_divide_rec"
    /\ UNCHANGED <<arg, file, pos, file_size, eof, datagram_ident, read_method, datagram_data,
                   P0, FID, out>>

NextDivide == DivideRec

SpecDivide == InitDivide /\ [][NextDivide]_vars

\* the record of the call has more than one sector and is an #MRZ
Divided ==
    /\ op = "_divide_rec"
    /\ datagram_ident = Id("M","R","Z")
    /\ arg.rec.pingInfo.numTxSectors > 1

\* rec['header']['dgtime'] of a sub-record after the call: the value in
\* the header dictionary it refers to
TimeOf(rec) == result.objects[rec.header].dgtime

\* one sub-record per sector, each with the soundings and the sector
\* values of its sector
SplitBySector ==
    /\ err = ""
    /\ Len(result.totalrecs) = arg.rec.pingInfo.numTxSectors
    /\ \A s \in 1..Len(result.totalrecs) :
          /\ result.totalrecs[s].txSectorInfo.txSectorNumb = s - 1
          /\ result.totalrecs[s].txSectorInfo.sectorTransmitDelay_sec
                 = arg.rec.txSectorInfo.sectorTransmitDelay_sec[s]
          /\ \A i \in 1..Len(arg.rec.sounding.txSectorNumb) :
                (arg.rec.sounding.txSectorNumb[i] = s - 1)
                    <=> (\E j \in 1..Len(result.totalrecs[s].sounding.soundingIndex) :
                            result.totalrecs[s].sounding.soundingIndex[j]
                                = arg.rec.sounding.soundingIndex[i])
          /\ \A j \in 1..Len(result.totalrecs[s].sounding.txSectorNumb) :
                result.totalrecs[s].sounding.txSectorNumb[j] = s - 1

\* C24: _divide_rec on an #MRZ record with more than one transmit sector
\* returns one sub-record per sector, with the soundings of that sector
\* and its sector values, and with the header time of the datagram plus
\* the transmit delay of that sector, which each sub-record still has
\* when all of them have been produced; a record with one sector or of
\* another type is returned unchanged as the only element.
C24_SubRecordPerSector ==
    /\ (Divided /\ arg.rec.sounding # NoData) =>
          /\ SplitBySector
          /\ \A s \in 1..Len(result.totalrecs) :
                TimeOf(result.totalrecs[s])
                    = arg.objects.header.dgtime + arg.rec.txSectorInfo.sectorTransmitDelay_sec[s]
    /\ (op = "_divide_rec" /\ ~Divided) =>
          (err = "" /\ result.totalrecs = << arg.rec >> /\ result.objects = arg.objects)

\* the split itself, and the record that is not split
SplitWithoutTimes ==
    /\ (Divided /\ arg.rec.sounding # NoData) => SplitBySector
    /\ (op = "_divide_rec" /\ ~Divided) =>
          (err = "" /\ result.totalrecs = << arg.rec >> /\ result.objects = arg.objects)

\* every sub-record has the time of the last sector
TimesAreTheLast ==
    (Divided /\ arg.rec.sounding # NoData) =>
        \A s \in 1..Len(result.totalrecs) :
            TimeOf(result.totalrecs[s])
                = arg.objects.header.dgtime
                  + arg.rec.txSectorInfo.sectorTransmitDelay_sec[arg.rec.pingInfo.numTxSectors]

\* ------------------------------------------------------------------------
\* The beams of a #MWC datagram (SpecMWC)
\* ------------------------------------------------------------------------

\* the beam loop of read_EMdgmMWC as MWCbeams follows it, with what the
\* passes have read: per beam the offset of its metadata, numSampleData,
\* and the numbers of amplitude and of phase bytes unpacked
MWCpass(f, r, numBeams, phaseFlag, ns) ==
    [at |-> r.pos, numSampleData |-> ns, amplitude |-> ns,
     phase |-> IF phaseFlag \in {1, 2} THEN numBeams * ns ELSE 0]

RECURSIVE MWCread(_, _, _, _, _, _)
MWCread(f, r, left, numBeams, phaseFlag, beams) ==
    IF left <= 0 THEN beams
    ELSE IF MWCbeams(f, r, 1, numBeams, phaseFlag).err # "" THEN beams
    ELSE MWCread(f, MWCbeams(f, r, 1, numBeams, phaseFlag), left - 1, numBeams, phaseFlag,
                 Append(beams, MWCpass(f, r, numBeams, phaseFlag, u16(f, r.pos + 10))))

\* the dictionary read_EMdgmMWC returns, as far as the beams go: beamData
\* and, for phaseFlag 1 or 2 only, the key phaseInfo; r is the reader
\* behind rxInfo, which was read at offset o
MWCdict(f, r, o, beams) ==
    IF u8(f, o + 5) \in {1, 2}
    THEN [beamData |-> beams, phaseInfo |-> [i \in 1..Len(beams) |-> beams[i].phase]]
    ELSE [beamData |-> beams]

MWCfromRxInfo(f, r, o) ==
    MWCdict(f, r, o, MWCread(f, r, u16(f, o + 2), u16(f, o + 2), u8(f, o + 5), << >>))

MWCfromTxInfo(f, r, o) ==
    MWCfromRxInfo(f, read_EMdgmMWCrxInfo(f, Repeat(f, r, u16(f, o + 2), MWCtxSectorDataSize)),
                  Repeat(f, r, u16(f, o + 2), MWCtxSectorDataSize).pos)

MWCfromBody(f, r) == MWCfromTxInfo(f, read_EMdgmMWCtxInfo(f, r), r.pos)

\* the record of the #MWC datagram at offset p, with the beams read
\* before read_EMdgmMWC returns or raises
MWCrec(f, p) ==
    MWCfromBody(f, read_EMdgmMbody(f, read_EMdgmMpartition(f, read_EMdgmHeader(f, Rd(p)))))

\* one beam as the format lays it out: the metadata with numSampleData =
\* ns, ns amplitude bytes, and ns phase samples of 1 byte (phaseFlag 1) or
\* 2 bytes (phaseFlag 2)
FormatBeam(ns, phaseFlag) ==
    Zeros(10) \o U16le(ns) \o [i \in 1..ns |-> 7] \o [i \in 1..(ns * phaseFlag) |-> 1]

\* the beams with the sample counts of the sequence nss
RECURSIVE FormatBeams(_, _)
FormatBeams(nss, phaseFlag) ==
    IF nss = << >> THEN << >>
    ELSE FormatBeam(Head(nss), phaseFlag) \o FormatBeams(Tail(nss), phaseFlag)

\* the body of a #MWC datagram with nTx sectors and the beams nss
FormatMWCbody(nTx, nss, phaseFlag, e) ==
    Mpartition \o Mbody(e) \o SizedPart(MWCtxInfoSize, e, 2, nTx)
        \o Zeros(nTx * MWCtxSectorDataSize)
        \o U16le(MWCrxInfoSize + e) \o U16le(Len(nss)) \o << MWCrxBeamDataSize, phaseFlag >>
        \o Zeros(MWCrxInfoSize - 6 + e)
        \o FormatBeams(nss, phaseFlag)
        \o Zeros(e)

\* files of one #MWC datagram
MWCFiles ==
    { ScanFrame(Tag("M","W","C"), FormatMWCbody(nTx, nss, phaseFlag, e)) :
        nTx \in 0..1, nss \in UNION { [1..n -> 0..MaxCount] : n \in 0..MaxCount },
        phaseFlag \in 0..2, e \in 0..1 }

\* the file is open for reading, the cursor on the datagram
InitMWC ==
    /\ file \in MWCFiles
    /\ pos = 0
    /\ file_size = NoSize
    /\ eof = FALSE
    /\ datagram_ident = << >>
    /\ read_method = "None"
    /\ datagram_data = NoData
    /\ err = ""
    /\ op = "init"
    /\ P0 = 0
    /\ FID = "open"
    /\ out = << >>
    /\ arg = NoData
    /\ result = NoData

\* dg = read_EMdgmMWC()
ReadMWC ==
    /\ op = "init"
    /\ pos' = read_EMdgmMWC(file, pos).pos
    /\ err' = read_EMdgmMWC(file, pos).err
    /\ result' = MWCrec(file, pos)
    /\ P0' = pos
    /\ op' = "read_EMdgmMWC"
    /\ UNCHANGED <<arg, file, file_size, eof, datagram_ident, read_method, datagram_data,
                   FID, out>>

NextMWC == ReadMWC

SpecMWC == InitMWC /\ [][NextMWC]_vars

\* the fields of rxInfo of the #MWC datagram at the start of f
NumBeamsOf(f) ==
    u16(f, HeaderSize + MpartitionSize + u16(f, HeaderSize + MpartitionSize)
           + u16(f, HeaderSize + MpartitionSize + u16(f, HeaderSize + MpartitionSize))
           + u16(f, HeaderSize + MpartitionSize + u16(f, HeaderSize + MpartitionSize) + 2)
               * MWCtxSectorDataSize + 2)

PhaseFlagOf(f) ==
    u8(f, HeaderSize + MpartitionSize + u16(f, HeaderSize + MpartitionSize)
          + u16(f, HeaderSize + MpartitionSize + u16(f, HeaderSize + MpartitionSize))
          + u16(f, HeaderSize + MpartitionSize + u16(f, HeaderSize + MpartitionSize) + 2)
              * MWCtxSectorDataSize + 5)

\* C25: read_EMdgmMWC reads, for each of the numBeams beams in turn, the
\* beam metadata, numSampleData amplitude bytes and then, with phaseFlag 1
\* or 2, the phase samples of that beam alone, numSampleData of them at 1
\* byte (phaseFlag 1) or 2 bytes (phaseFlag 2); with phaseFlag 0 it reads
\* no phase bytes and returns no phaseInfo.
C25_BeamLayout ==
    op = "read_EMdgmMWC" =>
        /\ err = ""
        /\ Len(result.beamData) = NumBeamsOf(file)
        /\ \A i \in 1..Len(result.beamData) :
              /\ result.beamData[i].amplitude = result.beamData[i].numSampleData
              /\ result.beamData[i].phase
                     = result.beamData[i].numSampleData * PhaseFlagOf(file)
        /\ PhaseFlagOf(file) = 0 => "phaseInfo" \notin DOMAIN result

\* without phase samples the beams are read as laid out
BeamsWithoutPhase ==
    (op = "read_EMdgmMWC" /\ PhaseFlagOf(file) = 0) => C25_BeamLayout

\* ------------------------------------------------------------------------
\* Datagrams cut short by the end of the file (SpecCut)
\* ------------------------------------------------------------------------

\* the datagrams cut: one of each type that has a decoder, without
\* unknown bytes, so that the fields end at the closing length word
WholeDgms == UNION { StandardDgms(c, 0) : c \in 1..MaxCount }

\* files of one datagram: whole, or cut short behind its header and
\* before the end of its fields
CutFiles ==
    WholeDgms \cup UNION { { Take(d, n) : n \in HeaderSize..(Len(d) - LenFieldSize - 1) }
                            : d \in WholeDgms }

\* the file is open for reading, the cursor on the datagram
InitCut ==
    /\ file \in { f \in CutFiles : Len(f) >= HeaderSize }
    /\ pos = 0
    /\ file_size = NoSize
    /\ eof = FALSE
    /\ datagram_ident = << >>
    /\ read_method = "None"
    /\ datagram_data = NoData
    /\ err = ""
    /\ op = "init"
    /\ P0 = 0
    /\ FID = "open"
    /\ out = << >>
    /\ arg = NoData
    /\ result = NoData

\* dg = read_EMdgmXXX() for the type of the datagram
CutRead ==
    /\ op = "init"
    /\ \E m \in TesterMethod(TagAt(file, 0)) :
          /\ pos' = Call(m, file, 0).pos
          /\ err' = Call(m, file, 0).err
          /\ read_method' = m
          /\ datagram_data' = IF Call(m, file, 0).err = ""
                              THEN [kind |-> m, header |-> HeaderRec(file, 0)] ELSE NoData
    /\ P0' = 0
    /\ op' = "read"
    /\ UNCHANGED <<arg, result, file, file_size, eof, datagram_ident, FID, out>>

NextCut == CutRead

SpecCut == InitCut /\ [][NextCut]_vars

\* the file ends inside the fields of its datagram
CutShort(f) == Len(f) < u32(f, 0) - LenFieldSize

\* C28: when a datagram is cut short by the end of the file part-way
\* through its body, the decoder of its type raises an error and returns
\* no record.
C28_CutDatagramRaises ==
    (op = "read" /\ CutShort(file)) => (err # "" /\ datagram_data = NoData)

\* the same for every type but #IIP and #IOP, whose body is a text block
CutFixedFieldsRaise ==
    (op = "read" /\ CutShort(file)
       /\ TagAt(file, 0) \notin {Tag("I","I","P"), Tag("I","O","P")})
        => (err = "struct.error" /\ datagram_data = NoData)

\* a datagram cut inside its text block is returned as a record
CutTextIsReturned ==
    (op = "read" /\ CutShort(file)
       /\ TagAt(file, 0) \in {Tag("I","I","P"), Tag("I","O","P")}
       /\ Len(file) >= HeaderSize + IIPfixedSize)
        => err = ""

\* ------------------------------------------------------------------------
\* Compressing and decompressing a file: the loops of __main__ (SpecPass)
\* ------------------------------------------------------------------------

\* K.index_file() from its first pass to the table: the rows and the
\* exception that leaves the call
RECURSIVE IndexLoop(_, _)
IndexLoop(f, s) ==
    IF s.err # "" \/ s.pos >= Len(f) THEN s
    ELSE IndexLoop(f, IndexedFrom(f, s.pos, s.lists))

IndexOf(s) ==
    IF s.err # "" THEN [rows |-> << >>, err |-> s.err]
    ELSE IF ~SameLengths(s.lists) THEN [rows |-> << >>, err |-> "ValueError"]
    ELSE [rows |-> Table(s.lists).rows, err |-> ""]

index_file(f) == IndexOf(IndexLoop(f, IndexState(0, "", NoIndex)))

\* struct.pack("f", x) of a float the decoder returned; the floats decoded
\* from the files of SpecPass are whole numbers
PackF(x) == CASE x.frac = Big(0) -> F32le(x.int)

\* struct.pack("f", x) of a sector coefficient values / 100.0
PackCoeff(x) == CASE x.hundredths = 0 -> F32le(x.int)

\* the floats of the columns cols of sounding number record, packed in
\* their order
RECURSIVE PackColumns(_, _, _)
PackColumns(dg, cols, record) ==
    IF cols = << >> THEN << >>
    ELSE PackF(dg[Head(cols).name][record]) \o PackColumns(dg, Tail(cols), record)

\* the bytes write_EMdgmMRZ_sounding packs between soundingIndex and
\* SInumSamples for a record of named fields ("8B1H6f2H18f3H")
SoundingFields(dg, record) ==
    << dg.txSectorNumb[record], dg.detectionType[record], dg.detectionMethod[record],
       dg.rejectionInfo1[record], dg.rejectionInfo2[record],
       dg.postProcessingInfo[record], dg.detectionClass[record],
       dg.detectionConfidenceLevel[record] >>
        \o U16le(dg.padding[record])
        \o PackColumns(dg, FloatsA, record)
        \o U16le(dg.WCBeamNumb[record]) \o U16le(dg.WCrange_samples[record])
        \o PackColumns(dg, FloatsB, record)
        \o PackCoeff(dg.meanAbsCoeff_dbPerkm[record])
        \o PackColumns(dg, FloatsC, record)
        \o U16le(dg.realTimeCleanInfo[record])
        \o U16le(dg.SIstartRange_samples[record]) \o U16le(dg.SIcentreSample[record])

\* struct.pack takes a "B" field from 0..255 only
PacksAsBytes(dg) ==
    \A k \in {"txSectorNumb", "detectionType", "detectionMethod", "rejectionInfo1",
              "rejectionInfo2", "postProcessingInfo", "detectionClass",
              "detectionConfidenceLevel"} :
        \A record \in 1..Len(dg[k]) : dg[k][record] \in 0..255

\* the record with its soundings as write_EMdgmMRZ_sounding packs them
PackedSoundings(dg) ==
    [dg EXCEPT !.sounding =
        [soundingIndex |-> @.soundingIndex,
         fields |-> [record \in 1..Len(@.soundingIndex) |-> SoundingFields(@, record)],
         SInumSamples |-> @.SInumSamples]]

\* without the key SIsample_desidB a warning is printed in place of the
\* imagery and the closing length follows the soundings
WithoutImagery(dg, w) ==
    IF w.err = "struct.error"
    THEN [out |-> w.out \o U32le(dg.header.numBytesDgm), err |-> ""]
    ELSE w

\* T.write_EMdgmMRZ(dg) for the record dg a reader of compressed datagrams
\* returned: its soundings are lists of named fields, and a record of
\* level 1 has no key SIsample_desidB.  A field outside 0..255 stops the
\* call in the soundings (the bytes before it are left out here).
write_EMdgmMRZ_decoded(dg) ==
    IF dg.rxInfo.numExtraDetectionClasses = 0 /\ ~PacksAsBytes(dg.sounding)
    THEN [out |-> << >>, err |-> "struct.error"]
    ELSE IF "SIsample_desidB" \in DOMAIN dg THEN write_EMdgmMRZ(PackedSoundings(dg))
    ELSE WithoutImagery(dg, write_EMdgmMRZ(PackedSoundings(dg)
                                             @@ [SIsample_desidB |-> << >>]))

\* the loop over the rows of K.Index from row i on, written being the
\* bytes in T so far: the bytes in T and the exception when the loop ends
RECURSIVE CompressFrom(_, _, _, _, _)
CompressWritten(f, rows, i, level, written, w) ==
    IF w.err # "" THEN [out |-> written \o w.out, err |-> w.err]
    ELSE CompressFrom(f, rows, i + 1, level, written \o w.out)

CompressRead(f, rows, i, level, written, r) ==
    IF r.err # "" THEN [out |-> written, err |-> r.err]
    ELSE CompressWritten(f, rows, i, level, written,
                         IF level = 0 THEN write_EMdgmCZ0(MRZrec(f, rows[i].ByteOffset))
                         ELSE write_EMdgmCZ1(MRZrec(f, rows[i].ByteOffset)))

CompressFrom(f, rows, i, level, written) ==
    IF i > Len(rows) THEN [out |-> written, err |-> ""]
    ELSE IF rows[i].MessageType = str(Tag("M", "R", "Z"))
    THEN CompressRead(f, rows, i, level, written, read_EMdgmMRZ(f, rows[i].ByteOffset))
    ELSE CompressFrom(f, rows, i + 1, level,
                      written \o ReadBytes(f, rows[i].ByteOffset, rows[i].MessageSize))

\* the type compressed at a level
CZtag(level) == IF level = 0 THEN Tag("C", "Z", "0") ELSE Tag("C", "Z", "1")

RECURSIVE DecompressFrom(_, _, _, _, _)
DecompressWritten(f, rows, i, level, written, w) ==
    IF w.err # "" THEN [out |-> written \o w.out, err |-> w.err]
    ELSE DecompressFrom(f, rows, i + 1, level, written \o w.out)

DecompressRead(f, rows, i, level, written, r) ==
    IF r.err # "" THEN [out |-> written, err |-> r.err]
    ELSE DecompressWritten(f, rows, i, level, written, write_EMdgmMRZ_decoded(r.dg))

DecompressFrom(f, rows, i, level, written) ==
    IF i > Len(rows) THEN [out |-> written, err |-> ""]
    ELSE IF rows[i].MessageType = str(CZtag(level))
    THEN DecompressRead(f, rows, i, level, written,
                        IF level = 0 THEN read_EMdgmCZ0(f, rows[i].ByteOffset)
                        ELSE read_EMdgmCZ1(f, rows[i].ByteOffset))
    ELSE DecompressFrom(f, rows, i + 1, level,
                        written \o ReadBytes(f, rows[i].ByteOffset, rows[i].MessageSize))

\* K.index_file() and the loop
Looped(x, l) == IF x.err # "" THEN [out |-> << >>, err |-> x.err] ELSE l

compress(f, level) ==
    Looped(index_file(f), CompressFrom(f, index_file(f).rows, 1, level, << >>))

decompress(f, level) ==
    Looped(index_file(f), DecompressFrom(f, index_file(f).rows, 1, level, << >>))

\* the levels of compression
CompressionLevels == {0, 1}

\* #MRZ datagrams of one sector: with and without extra detection classes,
\* no sounding to MaxCount + 1 soundings, valid detects and non-detects, no
\* imagery sample to MaxCount samples per sounding
PassMRZ ==
    { Frame(Tag("M","R","Z"), MRZbodyOf(1, nCls, n, method, si), 0) :
        nCls \in 0..1, n \in 0..(MaxCount + 1),
        method \in [1..(MaxCount + 1) -> {0, 1}], si \in 0..MaxCount }

\* the datagrams of other types around them
PassOthers ==
    { d \in StandardDgms(1, 0) : TagAt(d, 0) \in {Tag("S","V","T"), Tag("I","I","P")} }

\* the #MRZ datagram of two valid detects with one sample each
PassPing == Frame(Tag("M","R","Z"), MRZbodyOf(1, 0, 2, [k \in 1..(MaxCount + 1) |-> 1], 1), 0)

\* well-formed files: a #MRZ datagram between other datagrams, two #MRZ
\* datagrams, and files without #MRZ
PassFiles ==
    { a \o m \o b : a \in PassOthers \cup {<< >>}, m \in PassMRZ,
                    b \in PassOthers \cup {<< >>} }
        \cup { m \o PassPing : m \in PassMRZ }
        \cup { a \o b : a \in PassOthers, b \in PassOthers }

InitPass ==
    /\ file \in PassFiles
    /\ pos = 0
    /\ file_size = NoSize
    /\ eof = FALSE
    /\ datagram_ident = << >>
    /\ read_method = "None"
    /\ datagram_data = NoData
    /\ err = ""
    /\ op = "init"
    /\ P0 = 0
    /\ FID = "None"
    /\ out = << >>
    /\ arg = NoData
    /\ result = NoData

\* python kmall.py -f file -z -l level
Compress ==
    /\ op = "init"
    /\ \E level \in CompressionLevels :
          /\ out' = compress(file, level).out
          /\ err' = compress(file, level).err
          /\ arg' = [level |-> level]
    /\ op' = "compress"
    /\ FID' = "closed"
    /\ UNCHANGED <<file, pos, file_size, eof, datagram_ident, read_method,
                   datagram_data, P0, result>>

\* python kmall.py -f file.kmall.<level>z --decompress, on a file that
\* was written at some level
Decompress ==
    /\ op = "compress" /\ err = ""
    /\ file' = out
    /\ \E level \in CompressionLevels :
          /\ out' = decompress(out, level).out
          /\ err' = decompress(out, level).err
          /\ arg' = [level |-> level]
    /\ op' = "decompress"
    /\ UNCHANGED <<pos, file_size, eof, datagram_ident, read_method, datagram_data,
                   P0, FID, result>>

NextPass == Compress \/ Decompress

SpecPass == InitPass /\ [][NextPass]_vars

\* ------------------------------------------------------------------------
\* Properties of the two loops (SpecPass)
\* ------------------------------------------------------------------------

\* the datagram at offset p of f, as its length field frames it
Dgm(f, p) == SubSeq(f, p + 1, p + u32(f, p))

\* a datagram of at least a header and a closing length is framed at p
Framed(f, p) ==
    /\ p + HeaderSize + LenFieldSize <= Len(f)
    /\ u32(f, p) >= HeaderSize + LenFieldSize
    /\ p + u32(f, p) <= Len(f)
    /\ u32(f, p + u32(f, p) - LenFieldSize) = u32(f, p)

\* g, read from q, holds one datagram for each datagram of f from p, in
\* the same order: a datagram of type to for each of type from, and a
\* copy of every other
RECURSIVE PassedFrom(_, _, _, _, _, _)
PassedFrom(f, p, g, q, from, to) ==
    IF p >= Len(f) THEN q = Len(g)
    ELSE /\ Framed(g, q)
         /\ IF TagAt(f, p) = from THEN TagAt(g, q) = to
            ELSE Dgm(g, q) = Dgm(f, p)
         /\ PassedFrom(f, p + u32(f, p), g, q + u32(g, q), from, to)

\* the file holds a datagram of type tag
Holds(f, tag) == \E p \in 0..(Len(f) - HeaderSize) : TagAt(f, p) = tag /\ Framed(f, p)

\* C22: compressing a file at level 0 or 1 writes one output datagram per
\* input datagram in the same order, every datagram that is not #MRZ
\* copied byte for byte and each #MRZ as one #CZ0 or #CZ1; decompressing
\* copies every datagram that is not of the level's type and writes one
\* #MRZ for each #CZ0 or #CZ1.
C22_PassThrough ==
    /\ op = "compress" =>
           /\ err = ""
           /\ PassedFrom(file, 0, out, 0, Tag("M", "R", "Z"), CZtag(arg.level))
    /\ op = "decompress" =>
           /\ err = ""
           /\ PassedFrom(file, 0, out, 0, CZtag(arg.level), Tag("M", "R", "Z"))

\* the same for the runs that end without an exception
PassedWhenWritten ==
    /\ (op = "compress" /\ err = "") =>
           PassedFrom(file, 0, out, 0, Tag("M", "R", "Z"), CZtag(arg.level))
    /\ (op = "decompress" /\ err = "") =>
           PassedFrom(file, 0, out, 0, CZtag(arg.level), Tag("M", "R", "Z"))

\* the datagrams of other types are copied whatever the #MRZ datagrams
\* hold: a file without #MRZ is compressed to itself
CopiedWithoutMRZ ==
    (op = "compress" /\ ~Holds(file, Tag("M", "R", "Z"))) => (err = "" /\ out = file)

====
